---- MODULE Spec2Model ----
(***************************************************************************)
(* A model of the FlexSim MCP server (src/mcp_server/flexsim_mcp.py): the  *)
(* lazily created, lock-guarded controller session, the input models that  *)
(* validate tool requests, the tool handlers and the engine calls they     *)
(* issue, and the text helpers format_time and format_error.               *)
(*                                                                         *)
(* Times are whole seconds.  Texts are strings; the characters of the     *)
(* response templates that a string of this language cannot hold are       *)
(* written CheckMark, Arrow and Fence.                                     *)
(***************************************************************************)
EXTENDS Integers, Sequences, FiniteSets, TLC

(***************************************************************************)
(* Bounds of the model.                                                    *)
(***************************************************************************)
NumTasks == 2
MaxRequests == 2
MaxToolRequests == 2
MaxFaults == 1
MaxTicks == 2
MaxOneRequests == 1
MaxScenarioRequests == 4
MaxFormatSeconds == 7300
MaxLaunchRequests == 2
MaxLoopRequests == 2
MaxChannelRequests == 3
MaxSessionCalls == 2
MaxClockRequests == 2
MaxErrorWords == 2
MaxPollRequests == 2
MaxPairRequests == 2
MaxExportRequests == 2
MaxAppOps == 3
MaxAppTasks == 2
MaxLlmCalls == 2

(***************************************************************************)
(* Program constants.                                                      *)
(***************************************************************************)
MinSteps == 1
MaxSteps == 1000
MaxScriptLen == 10000
MinuteSeconds == 60
HourSeconds == 3600

CheckMark == "(U+2713)"
Arrow == "(U+2192)"
Fence == "(U+0060)(U+0060)(U+0060)"

(***************************************************************************)
(* Text helpers: what str.lower(), the `in` operator on strings and the    *)
(* format specifications of the f-strings compute.                         *)
(***************************************************************************)
\* The cased letters a string of this module can hold (the ASCII characters
\* and U+hh80 to U+hhFF of every row hh): each letter str.lower() changes
\* and, at the same place of LowerLetters, what it becomes.
UpperLetters ==
  "ABCDEFGHIJKLMNOPQRSTUVWXYZÀÁÂÃÄÅÆÇÈÉÊËÌÍÎÏÐÑÒÓÔÕÖØÙÚÛÜÝÞƂƄƇƋ" \o
  "ƎƑƘƠƢƤƦƧƩƬƮƯƱƲƳƵƷƸƼǄǅǇǈǊǋǍǏǑǓǕǗǙǛǞǠǢǤǦǨǪǬǮǱǲǴǶǷǸǺǼǾΆΈΉΊΌΎΏΑΒ" \o
  "ΓΔΕΖΗΘΙΚΛΜΝΞΟΠΡΣΤΥΦΧΨΩΪΫϏϘϚϜϞϠϢϤϦϨϪϬϮϴϷϹϺҀҊҌҎҐҒҔҖҘҚҜҞҠҢҤҦҨҪҬ" \o
  "ҮҰҲҴҶҸҺҼҾӀӁӃӅӇӉӋӍӐӒӔӖӘӚӜӞӠӢӤӦӨӪӬӮӰӲӴӶӸӺӼӾᎰᎱᎲᎳᎴᎵᎶᎷᎸᎹᎺᎻᎼᎽᎾᎿᏀᏁᏂ" \o
  "ᏃᏄᏅᏆᏇᏈᏉᏊᏋᏌᏍᏎᏏᏐᏑᏒᏓᏔᏕᏖᏗᏘᏙᏚᏛᏜᏝᏞᏟᏠᏡᏢᏣᏤᏥᏦᏧᏨᏩᏪᏫᏬᏭᏮᏯᏰᏱᏲᏳᏴᏵᲐᲑᲒᲓᲔᲕᲖᲗᲘ" \o
  "ᲙᲚᲛᲜᲝᲞᲟᲠᲡᲢᲣᲤᲥᲦᲧᲨᲩᲪᲫᲬᲭᲮᲯᲰᲱᲲᲳᲴᲵᲶᲷᲸᲹᲺᲽᲾᲿẀẂẄẆẈẊẌẎẐẒẔẞẠẢẤẦẨẪẬẮẰẲẴ" \o
  "ẶẸẺẼẾỀỂỄỆỈỊỌỎỐỒỔỖỘỚỜỞỠỢỤỦỨỪỬỮỰỲỴỶỸỺỼỾᾈᾉᾊᾋᾌᾍᾎᾏᾘᾙᾚᾛᾜᾝᾞᾟᾨᾩᾪᾫᾬᾭᾮ" \o
  "ᾯᾸᾹᾼῌῘῙῨῩῬῼↃⒶⒷⒸⒹⒺⒻⒼⒽⒾⒿⓀⓁⓂⓃⓄⓅⓆⓇⓈⓉⓊⓋⓌⓍⓎⓏⲀⲂⲄⲆⲈⲊⲌⲎⲐⲒⲔⲖⲘⲚⲜⲞⲠⲢⲤⲦⲨⲪ" \o
  "ⲬⲮⲰⲲⲴⲶⲸⲺⲼⲾⳀⳂⳄⳆⳈⳊⳌⳎⳐⳒⳔⳖⳘⳚⳜⳞⳠⳢⳫⳭⳲꚀꚂꚄꚆꚈꚊꚌꚎꚐꚒꚔꚖꚘꚚꞀꞂꞄꞆꞋꞐꞒꞖꞘꞚꞜꞞꞠꞢꞤ" \o
  "ꞦꞨꞰꞱꞲꞴꞶꞸꞺꞼꞾꟀꟂꟄꟅꟆꟇꟉꟐꟖꟘꟵ"

LowerLetters ==
  "abcdefghijklmnopqrstuvwxyzàáâãäåæçèéêëìíîïðñòóôõöøùúûüýþƃƅƈƌ" \o
  "ǝƒƙơƣƥʀƨʃƭʈưʊʋƴƶʒƹƽǆǆǉǉǌǌǎǐǒǔǖǘǚǜǟǡǣǥǧǩǫǭǯǳǳǵƕƿǹǻǽǿάέήίόύώαβ" \o
  "γδεζηθικλμνξοπρστυφχψωϊϋϗϙϛϝϟϡϣϥϧϩϫϭϯθϸϲϻҁҋҍҏґғҕҗҙқҝҟҡңҥҧҩҫҭ" \o
  "үұҳҵҷҹһҽҿӏӂӄӆӈӊӌӎӑӓӕӗәӛӝӟӡӣӥӧөӫӭӯӱӳӵӷӹӻӽӿꮀꮁꮂꮃꮄꮅꮆꮇꮈꮉꮊꮋꮌꮍꮎꮏꮐꮑꮒ" \o
  "ꮓꮔꮕꮖꮗꮘꮙꮚꮛꮜꮝꮞꮟꮠꮡꮢꮣꮤꮥꮦꮧꮨꮩꮪꮫꮬꮭꮮꮯꮰꮱꮲꮳꮴꮵꮶꮷꮸꮹꮺꮻꮼꮽꮾꮿᏸᏹᏺᏻᏼᏽაბგდევზთი" \o
  "კლმნოპჟრსტუფქღყშჩცძწჭხჯჰჱჲჳჴჵჶჷჸჹჺჽჾჿẁẃẅẇẉẋẍẏẑẓẕßạảấầẩẫậắằẳẵ" \o
  "ặẹẻẽếềểễệỉịọỏốồổỗộớờởỡợụủứừửữựỳỵỷỹỻỽỿᾀᾁᾂᾃᾄᾅᾆᾇᾐᾑᾒᾓᾔᾕᾖᾗᾠᾡᾢᾣᾤᾥᾦ" \o
  "ᾧᾰᾱᾳῃῐῑῠῡῥῳↄⓐⓑⓒⓓⓔⓕⓖⓗⓘⓙⓚⓛⓜⓝⓞⓟⓠⓡⓢⓣⓤⓥⓦⓧⓨⓩⲁⲃⲅⲇⲉⲋⲍⲏⲑⲓⲕⲗⲙⲛⲝⲟⲡⲣⲥⲧⲩⲫ" \o
  "ⲭⲯⲱⲳⲵⲷⲹⲻⲽⲿⳁⳃⳅⳇⳉⳋⳍⳏⳑⳓⳕⳗⳙⳛⳝⳟⳡⳣⳬⳮⳳꚁꚃꚅꚇꚉꚋꚍꚏꚑꚓꚕꚗꚙꚛꞁꞃꞅꞇꞌꞑꞓꞗꞙꞛꞝꞟꞡꞣꞥ" \o
  "ꞧꞩʞʇʝꞵꞷꞹꞻꞽꞿꟁꟃꞔʂᶎꟈꟊꟑꟗꟙꟶ"

\* The letters whose lower-case form a string of this module cannot hold,
\* and that form written (U+hhhh).
UpperOthers ==
  "ƁƆƉƊƏƐƓƔƖƗƜƝƟϽϾϿႠႡႢႣႤႥႦႧႨႩႪႫႬႭႮႯႰႱႲႳႴႵႶႷႸႹႺႻႼႽႾႿჀჁჂჃჄჅჇჍᎠᎡᎢᎣ" \o
  "ᎤᎥᎦᎧᎨᎩᎪᎫᎬᎭᎮᎯᾺΆῈΈῊΉῚΊῪΎῸΌῺΏꞍꞪꞫꞬꞭꞮꞳ"

LowerOthers ==
  "(U+0253)(U+0254)(U+0256)(U+0257)(U+0259)(U+025B)(U+0260)(U+0263)" \o
  "(U+0269)(U+0268)(U+026F)(U+0272)(U+0275)(U+037B)(U+037C)(U+037D)" \o
  "(U+2D00)(U+2D01)(U+2D02)(U+2D03)(U+2D04)(U+2D05)(U+2D06)(U+2D07)" \o
  "(U+2D08)(U+2D09)(U+2D0A)(U+2D0B)(U+2D0C)(U+2D0D)(U+2D0E)(U+2D0F)" \o
  "(U+2D10)(U+2D11)(U+2D12)(U+2D13)(U+2D14)(U+2D15)(U+2D16)(U+2D17)" \o
  "(U+2D18)(U+2D19)(U+2D1A)(U+2D1B)(U+2D1C)(U+2D1D)(U+2D1E)(U+2D1F)" \o
  "(U+2D20)(U+2D21)(U+2D22)(U+2D23)(U+2D24)(U+2D25)(U+2D27)(U+2D2D)" \o
  "(U+AB70)(U+AB71)(U+AB72)(U+AB73)(U+AB74)(U+AB75)(U+AB76)(U+AB77)" \o
  "(U+AB78)(U+AB79)(U+AB7A)(U+AB7B)(U+AB7C)(U+AB7D)(U+AB7E)(U+AB7F)" \o
  "(U+1F70)(U+1F71)(U+1F72)(U+1F73)(U+1F74)(U+1F75)(U+1F76)(U+1F77)" \o
  "(U+1F7A)(U+1F7B)(U+1F78)(U+1F79)(U+1F7C)(U+1F7D)(U+0265)(U+0266)" \o
  "(U+025C)(U+0261)(U+026C)(U+026A)(U+AB53)"

\* The cased characters that are not case-ignorable, and the case-ignorable
\* characters.
CasedLetters ==
  "ABCDEFGHIJKLMNOPQRSTUVWXYZabcdefghijklmnopqrstuvwxyzªµºÀÁÂÃÄ" \o
  "ÅÆÇÈÉÊËÌÍÎÏÐÑÒÓÔÕÖØÙÚÛÜÝÞßàáâãäåæçèéêëìíîïðñòóôõöøùúûüýþÿƀƁƂ" \o
  "ƃƄƅƆƇƈƉƊƋƌƍƎƏƐƑƒƓƔƕƖƗƘƙƚƛƜƝƞƟƠơƢƣƤƥƦƧƨƩƪƫƬƭƮƯưƱƲƳƴƵƶƷƸƹƺƼƽƾƿ" \o
  "ǄǅǆǇǈǉǊǋǌǍǎǏǐǑǒǓǔǕǖǗǘǙǚǛǜǝǞǟǠǡǢǣǤǥǦǧǨǩǪǫǬǭǮǯǰǱǲǳǴǵǶǷǸǹǺǻǼǽǾǿ" \o
  "ʀʁʂʃʄʅʆʇʈʉʊʋʌʍʎʏʐʑʒʓʕʖʗʘʙʚʛʜʝʞʟʠʡʢʣʤʥʦʧʨʩʪʫʬʭʮʯΆΈΉΊΌΎΏΐΑΒΓΔΕ" \o
  "ΖΗΘΙΚΛΜΝΞΟΠΡΣΤΥΦΧΨΩΪΫάέήίΰαβγδεζηθικλμνξοπρςστυφχψωϊϋόύώϏϐϑϒ" \o
  "ϓϔϕϖϗϘϙϚϛϜϝϞϟϠϡϢϣϤϥϦϧϨϩϪϫϬϭϮϯϰϱϲϳϴϵϷϸϹϺϻϼϽϾϿҀҁҊҋҌҍҎҏҐґҒғҔҕҖҗ" \o
  "ҘҙҚқҜҝҞҟҠҡҢңҤҥҦҧҨҩҪҫҬҭҮүҰұҲҳҴҵҶҷҸҹҺһҼҽҾҿӀӁӂӃӄӅӆӇӈӉӊӋӌӍӎӏӐӑӒӓ" \o
  "ӔӕӖӗӘәӚӛӜӝӞӟӠӡӢӣӤӥӦӧӨөӪӫӬӭӮӯӰӱӲӳӴӵӶӷӸӹӺӻӼӽӾӿրցւփքօֆևֈႠႡႢႣႤႥႦ" \o
  "ႧႨႩႪႫႬႭႮႯႰႱႲႳႴႵႶႷႸႹႺႻႼႽႾႿჀჁჂჃჄჅჇჍაბგდევზთიკლმნოპჟრსტუფქღყშჩც" \o
  "ძწჭხჯჰჱჲჳჴჵჶჷჸჹჺჽჾჿᎠᎡᎢᎣᎤᎥᎦᎧᎨᎩᎪᎫᎬᎭᎮᎯᎰᎱᎲᎳᎴᎵᎶᎷᎸᎹᎺᎻᎼᎽᎾᎿᏀᏁᏂᏃᏄᏅᏆᏇᏈ" \o
  "ᏉᏊᏋᏌᏍᏎᏏᏐᏑᏒᏓᏔᏕᏖᏗᏘᏙᏚᏛᏜᏝᏞᏟᏠᏡᏢᏣᏤᏥᏦᏧᏨᏩᏪᏫᏬᏭᏮᏯᏰᏱᏲᏳᏴᏵᏸᏹᏺᏻᏼᏽᲀᲁᲂᲃᲄᲅᲆᲇᲈ" \o
  "ᲐᲑᲒᲓᲔᲕᲖᲗᲘᲙᲚᲛᲜᲝᲞᲟᲠᲡᲢᲣᲤᲥᲦᲧᲨᲩᲪᲫᲬᲭᲮᲯᲰᲱᲲᲳᲴᲵᲶᲷᲸᲹᲺᲽᲾᲿᶀᶁᶂᶃᶄᶅᶆᶇᶈᶉᶊᶋᶌᶍ" \o
  "ᶎᶏᶐᶑᶒᶓᶔᶕᶖᶗᶘᶙᶚẀẁẂẃẄẅẆẇẈẉẊẋẌẍẎẏẐẑẒẓẔẕẖẗẘẙẚẛẜẝẞẟẠạẢảẤấẦầẨẩẪẫẬậẮ" \o
  "ắẰằẲẳẴẵẶặẸẹẺẻẼẽẾếỀềỂểỄễỆệỈỉỊịỌọỎỏỐốỒồỔổỖỗỘộỚớỜờỞởỠỡỢợỤụỦủỨứỪ" \o
  "ừỬửỮữỰựỲỳỴỵỶỷỸỹỺỻỼỽỾỿᾀᾁᾂᾃᾄᾅᾆᾇᾈᾉᾊᾋᾌᾍᾎᾏᾐᾑᾒᾓᾔᾕᾖᾗᾘᾙᾚᾛᾜᾝᾞᾟᾠᾡᾢᾣᾤᾥᾦ" \o
  "ᾧᾨᾩᾪᾫᾬᾭᾮᾯᾰᾱᾲᾳᾴᾶᾷᾸᾹᾺΆᾼιῂῃῄῆῇῈΈῊΉῌῐῑῒΐῖῗῘῙῚΊῠῡῢΰῤῥῦῧῨῩῪΎῬῲῳῴῶῷ" \o
  "ῸΌῺΏῼↃↄⒶⒷⒸⒹⒺⒻⒼⒽⒾⒿⓀⓁⓂⓃⓄⓅⓆⓇⓈⓉⓊⓋⓌⓍⓎⓏⓐⓑⓒⓓⓔⓕⓖⓗⓘⓙⓚⓛⓜⓝⓞⓟⓠⓡⓢⓣⓤⓥⓦⓧⓨⓩⲀ" \o
  "ⲁⲂⲃⲄⲅⲆⲇⲈⲉⲊⲋⲌⲍⲎⲏⲐⲑⲒⲓⲔⲕⲖⲗⲘⲙⲚⲛⲜⲝⲞⲟⲠⲡⲢⲣⲤⲥⲦⲧⲨⲩⲪⲫⲬⲭⲮⲯⲰⲱⲲⲳⲴⲵⲶⲷⲸⲹⲺⲻⲼ" \o
  "ⲽⲾⲿⳀⳁⳂⳃⳄⳅⳆⳇⳈⳉⳊⳋⳌⳍⳎⳏⳐⳑⳒⳓⳔⳕⳖⳗⳘⳙⳚⳛⳜⳝⳞⳟⳠⳡⳢⳣⳤⳫⳬⳭⳮⳲⳳꚀꚁꚂꚃꚄꚅꚆꚇꚈꚉꚊꚋꚌꚍ" \o
  "ꚎꚏꚐꚑꚒꚓꚔꚕꚖꚗꚘꚙꚚꚛꞀꞁꞂꞃꞄꞅꞆꞇꞋꞌꞍꞎꞐꞑꞒꞓꞔꞕꞖꞗꞘꞙꞚꞛꞜꞝꞞꞟꞠꞡꞢꞣꞤꞥꞦꞧꞨꞩꞪꞫꞬꞭꞮꞯꞰꞱ" \o
  "ꞲꞳꞴꞵꞶꞷꞸꞹꞺꞻꞼꞽꞾꞿꟀꟁꟂꟃꟄꟅꟆꟇꟈꟉꟊꟐꟑꟓꟕꟖꟗꟘꟙꟵꟶꟺꮀꮁꮂꮃꮄꮅꮆꮇꮈꮉꮊꮋꮌꮍꮎꮏꮐꮑꮒꮓꮔꮕꮖꮗ" \o
  "ꮘꮙꮚꮛꮜꮝꮞꮟꮠꮡꮢꮣꮤꮥꮦꮧꮨꮩꮪꮫꮬꮭꮮꮯꮰꮱꮲꮳꮴꮵꮶꮷꮸꮹꮺꮻꮼꮽꮾꮿ"

CaseIgnorables ==
  "'.:^¨­¯´·¸ʰʱʲʳʴʵʶʷʸʹʺʻʼʽʾʿˀˁ˂˃˄˅ˆˇˈˉˊˋˌˍˎˏːˑ˒˓˔˕˖˗˘˙˚˛˜˝˞˟ˠˡ" \o
  "ˢˣˤ˥˦˧˨˩˪˫ˬ˭ˮ˯˰˱˲˳˴˵˶˷˸˹˺˻˼˽˾˿΄΅·҃҄҅҆҇҈҉֑֖֛֢֣֤֚֒֓֔֕֗֘֙֜֝֞֟֠֡" \o
  "ְֱֲֳִֵֶַָׇֹֺֻּֽֿׁׂ֥֦֧֪ׅ֭֮֨֩֫֬֯ׄ״ۖۗۘۙۚۛۜ۝ۣ۟۠ۡۢۤۥۦ۪ۭۧۨ۫۬ަާިީުޫ" \o
  "ެޭޮޯް߲߫߬߭߮߯߰߱߳ߴߵߺ߽࢈࢐࢑࢙࢚࢛࢘࢜࢝࢞࢟ࣉ࣏࣐࣑࣒࣓࣊࣋࣌࣍࣎ࣔࣕࣖࣗࣘࣙࣚࣛࣜࣝࣞࣟ࣠࣡࣢ࣣࣦࣤࣥࣧ" \o
  "ࣰࣱࣲࣩ࣭࣮࣯ࣶࣹࣺࣨ࣪࣫࣬ࣳࣴࣵࣷࣸࣻࣼࣽࣾࣿঁ়ুূৃৄ্ৢৣ৾ઁં઼ુૂૃૄૅેૈ્ૢૣૺૻૼ૽૾૿ஂீ்ಁ಼ಿೆ" \o
  "ೌ್ೢೣඁ්ිීුූັິີຶື຺ຸູົຼໆ່້໊໋໌ໍ྄ཱྀྀྂྃ྆྇ྍྎྏྐྑྒྒྷྔྕྖྗྙྚྛྜྜྷྞྟྠྡྡྷྣྤྥྦྦྷ" \o
  "ྨྩྪྫྫྷྭྮྯྰྱྲླྴྵྶྷྸྐྵྺྻྼ࿆ႂႅႆႍႝჼ឴឵ិីឹឺុូួំ៉៊់៌៍៎៏័៑្៓ៗ៝ᢅᢆᢩᪧ᪰᪱᪲᪳᪴" \o
  "᪵᪶᪷᪸᪹᪺᪽᪻᪼᪾ᪿᫀ᫃᫄᫊᫁᫂᫅᫆᫇᫈᫉᫋ᫌᫍᫎᮀᮁᮢᮣᮤᮥᮨᮩ᮫ᮬᮭ᯦ᯨᯩᯭᯯᯰᯱ᳔᳕᳖᳗᳘᳙᳜᳝᳞᳟᳐᳑᳒᳚᳛᳠" \o
  "᳢᳣᳤᳥᳦᳧᳨᳭᳴᳸᳹ᶛᶜᶝᶞᶟᶠᶡᶢᶣᶤᶥᶦᶧᶨᶩᶪᶫᶬᶭᶮᶯᶰᶱᶲᶳᶴᶵᶶᶷᶸᶹᶺᶻᶼᶽᶾᶿ᷂᷊᷀᷁᷃᷄᷅᷆᷇᷈᷉᷋" \o
  "᷐᷎᷺᷏᷹᷽᷿᷷᷸᷌᷑᷒ᷓᷔᷕᷖᷗᷘᷙᷚᷛᷜᷝᷞᷟᷠᷡᷢᷣᷤᷥᷦᷧᷨᷩᷪᷫᷬᷭᷮᷯᷰᷱᷲᷳᷴ᷵᷻᷾᷶᷼᷍᾽᾿῀῁῍῎῏῝" \o
  "῞῟῭΅`´῾ₐₑₒₓₔₕₖₗₘₙₚₛₜ⃒⃓⃘⃙⃚⃐⃑⃔⃕⃖⃗⃛⃜⃝⃞⃟⃠⃡⃢⃣⃤⃥⃦⃪⃫⃨⃬⃭⃮⃯⃧⃩⃰⳯⳰⳱ⷠⷡⷢⷣ" \o
  "゙゚ⷤⷥⷦⷧⷨⷩⷪⷫⷬⷭⷮⷯⷰⷱⷲⷳⷴⷵⷶⷷⷸⷹⷺⷻⷼⷽⷾⷿ゛゜ゝゞーヽヾꓸꓹꓺꓻꓼꓽꚜꚝꚞꚟ꛰꛱ꞈ꞉꞊ꟲꟳꟴꟸꟹ꣄ꣅ꣠" \o
  "꣡꣢꣣꣤꣥꣦꣧꣨꣩꣪꣫꣬꣭꣮꣯꣰꣱ꣿꦀꦁꦂ꦳ꦶꦷꦸꦹꦼꦽꧏꧥꧦꪴꪰꪲꪳꪷꪸꪾ꪿꫁ꫝꫬꫭꫳꫴ꫶ꯥꯨ꯭﮲﮳﮴﮵﮶﮷﮸﮹﮺﮻﮼" \o
  "﮽﮾﮿﯀﯁﯂﻿ﾞﾟ￣￹￺￻"

Characters(s) == {SubSeq(s, i, i) : i \in 1..Len(s)}

Cased == Characters(CasedLetters)

CaseIgnorable == Characters(CaseIgnorables)

LowerCase ==
  LET one == {<<SubSeq(UpperLetters, i, i), SubSeq(LowerLetters, i, i)>> :
                 i \in 1..Len(UpperLetters)}
      other == {<<SubSeq(UpperOthers, i, i), SubSeq(LowerOthers, 8 * i - 7, 8 * i)>> :
                   i \in 1..Len(UpperOthers)}
  IN [c \in {p[1] : p \in one \cup other} |->
        (CHOOSE p \in one \cup other : p[1] = c)[2]]

LowerChar(c) == IF c \in DOMAIN LowerCase THEN LowerCase[c] ELSE c

\* A capital sigma is final when a cased letter stands before it and none
\* after it, the case-ignorable characters in between not counted.
final_sigma(s, i) ==
  LET before == {j \in 1..(i - 1) : SubSeq(s, j, j) \notin CaseIgnorable}
      after == {j \in (i + 1)..Len(s) : SubSeq(s, j, j) \notin CaseIgnorable}
      last == CHOOSE j \in before : \A k \in before : k <= j
      next == CHOOSE j \in after : \A k \in after : j <= k
  IN /\ before # {} /\ SubSeq(s, last, last) \in Cased
     /\ after # {} => SubSeq(s, next, next) \notin Cased

RECURSIVE LowerFrom(_, _)
LowerFrom(s, i) ==
  IF i > Len(s) THEN ""
  ELSE LET c == SubSeq(s, i, i)
       IN (IF c = "Σ" /\ final_sigma(s, i) THEN "ς" ELSE LowerChar(c))
          \o LowerFrom(s, i + 1)

Lower(s) == LowerFrom(s, 1)

Contains(hay, needle) ==
  \E i \in 1..(Len(hay) - Len(needle) + 1) :
     SubSeq(hay, i, i + Len(needle) - 1) = needle

RECURSIVE Repeat(_, _)
Repeat(s, n) ==
  IF n <= 0 THEN ""
  ELSE IF n % 2 = 1 THEN s \o Repeat(s, n - 1)
  ELSE LET half == Repeat(s, n \div 2) IN half \o half

\* One decimal where two are asked for.
Fixed1(x) == ToString(x) \o ".0"

\* f"{x:.2f}" of a whole number x, and str(x) of a float holding a whole number.
Fixed2(x) == ToString(x) \o ".00"
FloatStr(x) == ToString(x) \o ".0"

TwoDigits(n) == IF n < 10 THEN "0" \o ToString(n) ELSE ToString(n)

\* The text of h hundredths: "2.08" for 208.
HundredthsText(h) == ToString(h \div 100) \o "." \o TwoDigits(h % 100)

RECURSIVE Pow2Mod(_, _)
Pow2Mod(e, m) == IF e = 0 THEN 1 % m ELSE (2 * Pow2Mod(e - 1, m)) % m

RECURSIVE Binade(_, _)
\* The j with unit * 2^j <= v < unit * 2^(j+1), for v >= unit.
Binade(v, unit) == IF v < 2 * unit THEN 0 ELSE 1 + Binade(v \div 2, unit)

\* f"{seconds/60:.2f}" in hundredths of a minute.  5v/3 never lies halfway
\* between two integers, so the nearest hundredth is unique.
MinuteHundredths(v) == (10 * v + 3) \div 6

\* f"{seconds/3600:.2f}" in hundredths of an hour.  v/36 lies halfway when
\* v % 36 = 18: the quotient v/3600 is then rounded to a double first, and
\* the double lies below, on or above the decimal tie according to the
\* remainder of v * 2^(48-j) modulo 225 (3600 = 16 * 225).
HourHundredths(v) ==
  IF v % 36 # 18 THEN (v + 18) \div 36
  ELSE LET k == (v - 18) \div 36
           r == ((v % 225) * Pow2Mod(48 - Binade(v, HourSeconds), 225)) % 225
       IN IF r = 0 THEN (IF k % 2 = 0 THEN k ELSE k + 1)
          ELSE IF r <= 112 THEN k
          ELSE k + 1

\* The thresholds taken as the last value of the smaller unit.
format_time_inclusive(seconds) ==
  IF seconds <= MinuteSeconds THEN Fixed2(seconds) \o "s"
  ELSE IF seconds <= HourSeconds THEN HundredthsText(MinuteHundredths(seconds)) \o "m"
  ELSE HundredthsText(HourHundredths(seconds)) \o "h"

format_time(seconds) ==
  IF seconds < MinuteSeconds THEN Fixed2(seconds) \o "s"
  ELSE IF seconds < HourSeconds THEN HundredthsText(MinuteHundredths(seconds)) \o "m"
  ELSE HundredthsText(HourHundredths(seconds)) \o "h"

\* The keywords looked for in the message as it is, without lower().
format_error_case_sensitive(msg) ==
  IF Contains(msg, "not found") THEN "Not found: " \o msg
  ELSE IF Contains(msg, "syntax") THEN "FlexScript syntax error: " \o msg
  ELSE IF Contains(msg, "license") THEN "License error: " \o msg
  ELSE IF Contains(msg, "permission") THEN "Permission denied: " \o msg
  ELSE "Error: " \o msg

format_error(msg) ==
  LET low == Lower(msg)
  IN IF Contains(low, "not found") THEN "Not found: " \o msg
     ELSE IF Contains(low, "syntax") THEN "FlexScript syntax error: " \o msg
     ELSE IF Contains(low, "license") THEN "License error: " \o msg
     ELSE IF Contains(low, "permission") THEN "Permission denied: " \o msg
     ELSE "Error: " \o msg

(***************************************************************************)
(* pathlib on a POSIX system: Path(p) keeps the components of p without    *)
(* the empty ones and the "." ones; name, suffix and stem are taken from   *)
(* its last component; resolve() makes the path absolute against the       *)
(* working directory and removes the ".." components (the disk has no      *)
(* symbolic links).                                                        *)
(***************************************************************************)
Cwd == "/srv"

RECURSIVE LastIndexOf(_, _, _)
\* The greatest i <= n with s[i] = c, or 0.
LastIndexOf(s, c, n) ==
  IF n = 0 THEN 0
  ELSE IF SubSeq(s, n, n) = c THEN n
  ELSE LastIndexOf(s, c, n - 1)

\* A component of a path is kept unless it is empty or ".".
AddPart(parts, s) == IF s \in {"", "."} THEN parts ELSE Append(parts, s)

RECURSIVE Split(_, _, _, _)
\* The components of p from its n-th character on, after the components
\* parts; the component being read starts at start.
Split(p, n, start, parts) ==
  IF n > Len(p) THEN AddPart(parts, SubSeq(p, start, Len(p)))
  ELSE IF SubSeq(p, n, n) = "/"
  THEN Split(p, n + 1, n + 1, AddPart(parts, SubSeq(p, start, n - 1)))
  ELSE Split(p, n + 1, start, parts)

\* Path(p).parts without the root: "a//b/./c/" gives <<"a", "b", "c">>.
PathParts(p) == Split(p, 1, 1, <<>>)

\* Path(p).is_absolute()
IsAbsolute(p) == Len(p) >= 1 /\ SubSeq(p, 1, 1) = "/"

RECURSIVE Collapse(_, _)
\* The components parts walked from the directory at: ".." steps up, and
\* stays where it is at the root.
Collapse(at, parts) ==
  IF parts = <<>> THEN at
  ELSE IF Head(parts) = ".."
  THEN Collapse(IF at = <<>> THEN at ELSE SubSeq(at, 1, Len(at) - 1), Tail(parts))
  ELSE Collapse(Append(at, Head(parts)), Tail(parts))

RECURSIVE JoinParts(_)
JoinParts(parts) ==
  IF parts = <<>> THEN ""
  ELSE IF Len(parts) = 1 THEN parts[1]
  ELSE parts[1] \o "/" \o JoinParts(Tail(parts))

\* The components of the absolute path p stands for.
ResolvedParts(p) ==
  CHOOSE to \in { Collapse(from, parts) :
                    from \in {IF IsAbsolute(p) THEN <<>> ELSE PathParts(Cwd)},
                    parts \in {PathParts(p)} } : TRUE

PathName(p) == LET parts == PathParts(p) IN IF parts = <<>> THEN "" ELSE parts[Len(parts)]

\* The name is worked out once, then cut at its last ".".
PathSuffix(p) ==
  LET Suffix(name) ==
        LET i == LastIndexOf(name, ".", Len(name))
        IN IF 1 < i /\ i < Len(name) THEN SubSeq(name, i, Len(name)) ELSE ""
  IN CHOOSE suffix \in {Suffix(name) : name \in {PathName(p)}} : TRUE

PathStem(p) ==
  LET Stem(name) ==
        LET i == LastIndexOf(name, ".", Len(name))
        IN IF 1 < i /\ i < Len(name) THEN SubSeq(name, 1, i - 1) ELSE name
  IN CHOOSE stem \in {Stem(name) : name \in {PathName(p)}} : TRUE

\* str(Path(p).resolve())
PathResolve(p) == "/" \o JoinParts(ResolvedParts(p))

(***************************************************************************)
(* The state.                                                              *)
(***************************************************************************)
VARIABLES
  controller,   \* _controller: 0 is None, else the handle a launch returned
                \* (named by the request that launched it)
  locked,       \* _controller_lock is held
  waiters,      \* the tasks waiting for _controller_lock, first come first
  launches,     \* how many times launch_flexsim has been called
  engine,       \* the engine behind the handle
  calls,        \* the engine calls issued so far, in order
  faults,       \* how many calls have raised
  tasks,        \* the tool call each task is in, and its local variables
  cur,          \* the task running on the event loop, 0 when it is idle
  history,      \* the requests answered so far with their responses
  received,     \* how many requests have been received
  files,        \* the paths that exist on disk
  module_loaded, \* FlexSimPy was imported (FlexSimPy is not None)
  stopped,      \* the server has shut down
  fmt_in,       \* format_time's argument
  fmt_out,      \* format_time's result
  cfg_in,       \* what a Config is built from: the argument, os.environ, the disk
  cfg_out,      \* the Config built
  sent,         \* the messages the client wrote to the server's stdin, in order
  notified,     \* how many notifications the server has read
  client,       \* the test client: its message_id, where it is, what it read
  err_in,       \* the words of the exception message format_error is given
  err_out,      \* format_error's result
  app,          \* the Gradio client: session, connected, tools, what it returned
  build         \* a run of the build automation command line

sessVars == <<controller, locked, waiters, launches>>
engVars == <<engine, calls, faults>>
taskVars == <<tasks, cur, history, received>>
envVars == <<files, module_loaded, stopped>>
pureVars == <<fmt_in, fmt_out, cfg_in, cfg_out>>
cliVars == <<sent, notified, client>>
appVars == <<app, build>>
auxVars == <<err_in, err_out, appVars>>
sideVars == <<pureVars, cliVars, auxVars>>
vars == <<controller, locked, waiters, launches, engine, calls, faults,
          tasks, cur, history, received, files, module_loaded, stopped,
          fmt_in, fmt_out, cfg_in, cfg_out, sent, notified, client,
          err_in, err_out, app, build>>

Tasks == 1..NumTasks

\* The state of the parts no request has touched yet.
InitAux ==
  /\ err_in = <<>> /\ err_out = ""
  /\ app = [pc |-> "none"] /\ build = [pc |-> "none"]

(***************************************************************************)
(* The configuration loader (utility/config.py, class Config): where the   *)
(* file is looked for, how it is loaded, and what the environment          *)
(* overrides.                                                              *)
(***************************************************************************)
\* Python's None, for an argument not given and a variable not set.
None == "<None>"

\* `if x:` of a string or None.
Truthy(x) == x # None /\ x # ""

ProjectRoot == "/opt/flexsim_mcp"

\* Path.cwd() / "config.toml" and Path(__file__).parent.parent / "config.toml"
cwd_config == Cwd \o "/config.toml"
project_root == ProjectRoot \o "/config.toml"

\* The files an argument and FLEXSIM_CONFIG_PATH name here.
ArgToml == "custom/flexsim.toml"
EnvToml == "/etc/flexsim/config.toml"

TomlPaths == {ArgToml, EnvToml, cwd_config, project_root}

\* A path of the disk is "absent", or holds "toml", or "garbage" that tomli
\* does not load.
FileStates == {"absent", "toml", "garbage"}

NoEnviron ==
  [FLEXSIM_CONFIG_PATH |-> None, FLEXSIM_INSTALL_PATH |-> None,
   FLEXSIM_PYTHON_VERSION |-> None, FLEXSIM_LOG_LEVEL |-> None]

NoConfigInput ==
  [config_path |-> None, environ |-> NoEnviron, disk |-> [q \in TomlPaths |-> "absent"]]

\* The server's process: no variable set, and a config.toml in the working
\* directory.
ServerConfigInput ==
  [NoConfigInput EXCEPT !.disk = [q \in TomlPaths |-> IF q = cwd_config THEN "toml" ELSE "absent"]]

NotLoaded == [loaded |-> FALSE]

\* Path(p).exists()
PathExists(p) == p \in DOMAIN cfg_in.disk /\ cfg_in.disk[p] # "absent"

\* The install path of the defaults, and the alternative paths the
\* working directory's config.toml lists.
DefaultInstallPath == "FlexSimDev/program"
ListedPaths == <<"C:/FlexSim2024/program", "C:/FlexSim2023/program">>

\* What tomli.load gives for the file at p.  The working directory's
\* config.toml has the default install path and a list of alternatives,
\* the project root's sets the Python version and has no [flexsim] table,
\* any other file sets an install path of its own and nothing else.
TomlLoad(p) ==
  IF p = cwd_config
  THEN [flexsim |-> [install_path |-> DefaultInstallPath, alternative_paths |-> ListedPaths]]
  ELSE IF p = project_root
  THEN [python |-> [version |-> "3.12"]]
  ELSE [flexsim |-> [install_path |-> "FlexSim@" \o p]]

\* An explicit path that is missing passed over for the next source.
find_config_file_falling_through(config_path) ==
  LET env_path == cfg_in.environ.FLEXSIM_CONFIG_PATH
  IN IF Truthy(config_path) /\ PathExists(config_path) THEN config_path
     ELSE IF Truthy(env_path) /\ PathExists(env_path) THEN env_path
     ELSE IF PathExists(cwd_config) THEN cwd_config
     ELSE IF PathExists(project_root) THEN project_root
     ELSE None

\* Config._find_config_file
_find_config_file(config_path) ==
  LET env_path == cfg_in.environ.FLEXSIM_CONFIG_PATH
  IN IF Truthy(config_path)
     THEN IF PathExists(config_path) THEN config_path ELSE None
     ELSE IF Truthy(env_path) /\ PathExists(env_path) THEN env_path
     ELSE IF PathExists(cwd_config) THEN cwd_config
     ELSE IF PathExists(project_root) THEN project_root
     ELSE None

\* Config._set_defaults
_set_defaults ==
  [flexsim |-> [install_path |-> DefaultInstallPath],
   python |-> [version |-> "3.10"],
   server |-> [name |-> "FlexSimPy MCP Server", version |-> "0.1.0",
               http_endpoint |-> "http://127.0.0.1:8088/mcp"],
   session |-> [reuse_policy |-> "singleton"],
   logging |-> [level |-> "INFO"]]

\* Config._load_config, for the path found
_load_config(config_path) ==
  IF ~Truthy(config_path) THEN _set_defaults
  ELSE IF cfg_in.disk[config_path] = "toml" THEN TomlLoad(config_path)
  ELSE _set_defaults

\* config.setdefault(section, {})[key] = value
SetKey(config, section, key, value) ==
  LET old == IF section \in DOMAIN config THEN config[section] ELSE <<>>
  IN [s \in DOMAIN config \cup {section} |->
        IF s = section
        THEN [k \in DOMAIN old \cup {key} |-> IF k = key THEN value ELSE old[k]]
        ELSE config[s]]

\* An override that leaves a key the configuration already has.
Override_keeping(config, variable, section, key) ==
  IF Truthy(cfg_in.environ[variable])
     /\ ~(section \in DOMAIN config /\ key \in DOMAIN config[section])
  THEN SetKey(config, section, key, cfg_in.environ[variable])
  ELSE config

\* One override of Config._apply_environment_overrides
Override(config, variable, section, key) ==
  IF Truthy(cfg_in.environ[variable])
  THEN SetKey(config, section, key, cfg_in.environ[variable])
  ELSE config

\* Config._apply_environment_overrides
_apply_environment_overrides(config) ==
  Override(Override(Override(config, "FLEXSIM_INSTALL_PATH", "flexsim", "install_path"),
                    "FLEXSIM_PYTHON_VERSION", "python", "version"),
           "FLEXSIM_LOG_LEVEL", "logging", "level")

\* Config(config_path)
Config(config_path) ==
  LET found == _find_config_file(config_path)
  IN [loaded |-> TRUE, config_path |-> found,
      config |-> _apply_environment_overrides(_load_config(found))]

\* Config.flexsim_install_path and Config.flexsim_alternative_paths
flexsim_install_path(c) ==
  IF "flexsim" \in DOMAIN c.config /\ "install_path" \in DOMAIN c.config.flexsim
  THEN c.config.flexsim.install_path ELSE ""

flexsim_alternative_paths(c) ==
  IF "flexsim" \in DOMAIN c.config /\ "alternative_paths" \in DOMAIN c.config.flexsim
  THEN c.config.flexsim.alternative_paths ELSE <<>>

\* The argument of the last Config built is kept in cfg_in.config_path.
Built(config_path) == [cfg_in EXCEPT !.config_path = config_path]

\* What get_config() returns, and leaves in the global _config.
get_config == IF cfg_out.loaded THEN cfg_out ELSE Config(None)

\* A call of get_config() by itself.
get_config_call ==
  /\ cfg_out' = get_config
  /\ cfg_in' = IF cfg_out.loaded THEN cfg_in ELSE Built(None)
  /\ UNCHANGED <<fmt_in, fmt_out, cliVars, auxVars, sessVars, engVars, taskVars, envVars>>

\* set_config(config), for None or a Config the caller has just built.
set_config(given, config_path) ==
  /\ cfg_out' = IF given THEN Config(config_path) ELSE NotLoaded
  /\ cfg_in' = IF given THEN Built(config_path) ELSE cfg_in
  /\ UNCHANGED <<fmt_in, fmt_out, cliVars, auxVars, sessVars, engVars, taskVars, envVars>>

\* reload_config(config_path): the global configuration is built anew.
reload_config(config_path) ==
  /\ cfg_out' = Config(config_path)
  /\ cfg_in' = Built(config_path)
  /\ UNCHANGED <<fmt_in, fmt_out, cliVars, auxVars, sessVars, engVars, taskVars, envVars>>

(***************************************************************************)
(* The disk: files holds the paths of the regular files and of the         *)
(* directories that exist, besides the working directory and the           *)
(* directories above each of them.                                         *)
(***************************************************************************)
ModelFile == "models/line.FSM"

\* The regular files on disk; whatever else files holds is a directory.
DiskFiles == {ModelFile, "plant.fsx", "notes.txt", ".fsm", "old/line.fsm.bak"}

IsPrefix(a, b) == Len(a) <= Len(b) /\ SubSeq(b, 1, Len(a)) = a

\* disk is what the file system holds: the place of each entry and whether
\* the entry is a regular file.
IsFile(disk, at) == \E e \in disk : e.file /\ e.at = at

IsDirectory(disk, at) ==
  \/ IsPrefix(at, PathParts(Cwd))
  \/ \E e \in disk : IsPrefix(at, e.at) /\ (e.file => at # e.at)

RECURSIVE Walk(_, _, _)
\* The system's walk along the components parts from the directory at: each
\* step, ".." included, is taken from a directory that exists.
Walk(disk, at, parts) ==
  IF parts = <<>> THEN [ok |-> TRUE, at |-> at]
  ELSE IF ~IsDirectory(disk, at) THEN [ok |-> FALSE, at |-> at]
  ELSE IF Head(parts) = ".."
  THEN Walk(disk, IF at = <<>> THEN at ELSE SubSeq(at, 1, Len(at) - 1), Tail(parts))
  ELSE Walk(disk, Append(at, Head(parts)), Tail(parts))

\* Path(p).exists()
FileExists(p) ==
  \E disk \in {{[at |-> ResolvedParts(f), file |-> f \in DiskFiles] : f \in files}},
     from \in {IF IsAbsolute(p) THEN <<>> ELSE PathParts(Cwd)},
     parts \in {PathParts(p)} :
    \E w \in {Walk(disk, from, parts)} :
       w.ok /\ (IsFile(disk, w.at) \/ IsDirectory(disk, w.at))

(***************************************************************************)
(* Input models: each takes the arguments of a request and gives           *)
(* [ok |-> TRUE, params |-> the validated parameters] or                   *)
(* [ok |-> FALSE, error |-> the constraint that failed].                   *)
(***************************************************************************)
Has(args, f) == f \in DOMAIN args
Accept(params) == [ok |-> TRUE, params |-> params]
Reject(error) == [ok |-> FALSE, error |-> error]

\* The extension checked and the file not looked for.
validate_suffix(v) ==
  IF Lower(PathSuffix(v)) \notin {".fsm", ".fsx"}
  THEN Reject("Value error, Model must be .fsm or .fsx file")
  ELSE Accept([model_path |-> PathResolve(v)])

validate_path(v) ==
  IF Lower(PathSuffix(v)) \notin {".fsm", ".fsx"}
  THEN Reject("Value error, Model must be .fsm or .fsx file")
  ELSE IF ~FileExists(v)
  THEN Reject("Value error, File not found: " \o v)
  ELSE Accept([model_path |-> PathResolve(v)])

OpenModelInput(args) ==
  IF ~Has(args, "model_path") THEN Reject("model_path: Field required")
  ELSE IF Len(args.model_path) < 1 THEN Reject("model_path: min_length 1")
  ELSE validate_path(args.model_path)

RunToTimeInput(args) ==
  IF ~Has(args, "target_time") THEN Reject("target_time: Field required")
  ELSE IF ~(args.target_time > 0) THEN Reject("target_time: gt 0")
  ELSE Accept([target_time |-> args.target_time,
               fast_mode |-> IF Has(args, "fast_mode") THEN args.fast_mode ELSE FALSE])

\* A limit that the longest script allowed does not pass.
EvaluateScriptInputBelow(args) ==
  IF ~Has(args, "script") THEN Reject("script: Field required")
  ELSE IF Len(args.script) < 1 THEN Reject("script: min_length 1")
  ELSE IF Len(args.script) >= MaxScriptLen THEN Reject("script: max_length 10000")
  ELSE Accept([script |-> args.script])

EvaluateScriptInput(args) ==
  IF ~Has(args, "script") THEN Reject("script: Field required")
  ELSE IF Len(args.script) < 1 THEN Reject("script: min_length 1")
  ELSE IF Len(args.script) > MaxScriptLen THEN Reject("script: max_length 10000")
  ELSE Accept([script |-> args.script])

\* value is [str |-> s] or [num |-> n]; a request without it leaves it None.
NodeAccessInput(args) ==
  IF ~Has(args, "node_path") THEN Reject("node_path: Field required")
  ELSE IF Len(args.node_path) < 1 THEN Reject("node_path: min_length 1")
  ELSE Accept(IF Has(args, "value")
              THEN [node_path |-> args.node_path, value |-> args.value]
              ELSE [node_path |-> args.node_path])

SaveModelInput(args) ==
  Accept(IF Has(args, "save_path") THEN [save_path |-> args.save_path] ELSE [none |-> TRUE])

StepInput(args) ==
  LET steps == IF Has(args, "steps") THEN args.steps ELSE 1
  IN IF steps < MinSteps THEN Reject("steps: ge 1")
     ELSE IF steps > MaxSteps THEN Reject("steps: le 1000")
     ELSE Accept([steps |-> steps])

ExportResultsInput(args) ==
  IF ~Has(args, "export_path") THEN Reject("export_path: Field required")
  ELSE Accept([export_path |-> args.export_path,
               format |-> IF Has(args, "format") THEN args.format ELSE "csv"])

NoInput(args) == Accept([none |-> TRUE])

\* The input model of each tool's params.
InputModel(tool, args) ==
  CASE tool = "flexsim_open_model" -> OpenModelInput(args)
    [] tool = "flexsim_run_to_time" -> RunToTimeInput(args)
    [] tool = "flexsim_evaluate" -> EvaluateScriptInput(args)
    [] tool \in {"flexsim_get_node_value", "flexsim_set_node_value"} -> NodeAccessInput(args)
    [] tool = "flexsim_save_model" -> SaveModelInput(args)
    [] tool = "flexsim_step" -> StepInput(args)
    [] tool = "flexsim_export_results" -> ExportResultsInput(args)
    [] OTHER -> NoInput(args)

(***************************************************************************)
(* The engine behind a controller handle (FlexSimPy, the vendor's module): *)
(* what each call of the interface the tools use does to it and returns.   *)
(***************************************************************************)
EventGap == 15
TickGap == 30

FreshEngine == [time |-> 0, running |-> FALSE, stop_time |-> 0, model |-> ""]

Digits == "0123456789"
DigitValue(c) == (CHOOSE i \in 1..10 : SubSeq(Digits, i, i) = c) - 1
IsDigit(c) == \E i \in 1..10 : SubSeq(Digits, i, i) = c

RECURSIVE ParseWhole(_, _)
\* The whole number the text s starts with, after acc.
ParseWhole(s, acc) ==
  IF Len(s) = 0 \/ ~IsDigit(SubSeq(s, 1, 1)) THEN acc
  ELSE ParseWhole(SubSeq(s, 2, Len(s)), 10 * acc + DigitValue(SubSeq(s, 1, 1)))

StartsWith(s, prefix) == Len(s) >= Len(prefix) /\ SubSeq(s, 1, Len(prefix)) = prefix

EngineEvaluate(eng, script) ==
  IF script = "step()" THEN [eng EXCEPT !.time = eng.time + EventGap]
  ELSE IF StartsWith(script, "setstoptime(")
  THEN [eng EXCEPT !.stop_time = ParseWhole(SubSeq(script, 13, Len(script)), 0)]
  ELSE IF script = "newmodel()" THEN FreshEngine
  ELSE eng

\* The engine after the call c returned.
Effect(eng, c) ==
  CASE c.op = "open" -> [FreshEngine EXCEPT !.model = c.path]
    [] c.op = "reset" -> [eng EXCEPT !.time = 0, !.running = FALSE]
    [] c.op = "run" -> [eng EXCEPT !.running = TRUE]
    [] c.op = "stop" -> [eng EXCEPT !.running = FALSE]
    [] c.op = "runToTime" -> [eng EXCEPT !.time = c.time, !.running = FALSE]
    [] c.op = "evaluate" -> EngineEvaluate(eng, c.script)
    [] OTHER -> eng

\* What time() returns, and what evaluate returns, as text.
EngineTime(eng) == eng.time
EvaluateResult(eng, script) ==
  IF script = "getmodeltime()" THEN ToString(eng.time) ELSE "0"

\* The messages of the exceptions the engine raises.
EngineErrors == {"Node not found"}

\* The running engine's clock advances, up to the stop time when one is set,
\* between two runs of the event loop.
Tick ==
  /\ cur = 0
  /\ controller # 0 /\ engine.running /\ engine.time < MaxTicks * TickGap
  /\ LET t1 == engine.time + TickGap
         reach == engine.stop_time > engine.time /\ t1 >= engine.stop_time
     IN engine' = [engine EXCEPT !.time = IF reach THEN engine.stop_time ELSE t1,
                                 !.running = ~reach]
  /\ UNCHANGED <<calls, faults, sessVars, taskVars, envVars, sideVars>>

(***************************************************************************)
(* Tasks: one per tool call in flight.                                     *)
(***************************************************************************)
NoFuture == [exc |-> FALSE, msg |-> "", val |-> 0]

\* ctl is the tool's `controller`; launch tells whether the call launched the
\* engine itself ("none", "started", "ok", "failed"); behind is the request
\* whose launch held the lock when the call had to wait for it (0: none).
IdleTask == [pc |-> "idle", rid |-> 0, tool |-> "", args |-> [none |-> TRUE],
             params |-> [none |-> TRUE], ctl |-> 0, start |-> 0, i |-> 0,
             fut |-> NoFuture, launch |-> "none", behind |-> 0]

Answer(t, kind, text) ==
  [rid |-> tasks[t].rid, tool |-> tasks[t].tool, args |-> tasks[t].args,
   kind |-> kind, text |-> text, ctl |-> tasks[t].ctl,
   launch |-> tasks[t].launch, behind |-> tasks[t].behind]

\* The tool call of task t ends with the response r.
Finish(t, r) ==
  /\ history' = Append(history, r)
  /\ tasks' = [tasks EXCEPT ![t] = IdleTask]
  /\ cur' = 0
  /\ UNCHANGED received

\* `return text` of a tool.
Return(t, text) == Finish(t, Answer(t, "text", text))

\* Task t goes on at pc, still running on the event loop.
Goto(t, pc) ==
  /\ tasks' = [tasks EXCEPT ![t].pc = pc]
  /\ cur' = t
  /\ UNCHANGED <<history, received>>

\* An await that keeps the event loop until the task goes on.
Suspend_holding(t, pc) ==
  /\ tasks' = [tasks EXCEPT ![t].pc = pc]
  /\ cur' = t
  /\ UNCHANGED <<history, received>>

\* Task t suspends at pc: the event loop is free for another task.
Suspend(t, pc) ==
  /\ tasks' = [tasks EXCEPT ![t].pc = pc]
  /\ cur' = 0
  /\ UNCHANGED <<history, received>>

At(t, tool, pc) == cur = t /\ tasks[t].tool = tool /\ tasks[t].pc = pc

\* A tool that lets the exception through.
no_except_clause(t, msg) == Answer(t, "exception", msg)

\* The `except Exception as e` clause of each tool: the response to an
\* exception with message msg raised inside the tool's try block.
except_clause(t, msg) ==
  IF tasks[t].tool = "flexsim_evaluate"
  THEN Answer(t, "text", "Script error: " \o format_error(msg))
  ELSE Answer(t, "text", format_error(msg))

\* The entry of the call c in the log of calls: the request that made it,
\* the engine's clock when it was made (what time() returns), and whether it
\* returned (ok) or raised.
Stamp(eng, c, rid, ok) == c @@ [rid |-> rid, at |-> EngineTime(eng), ok |-> ok]

\* Task t calls c on the engine, from the thread it runs in, and the call
\* returns: its entry in the log of calls and its effect on the engine.  A
\* call is one step, and between two calls of a task on the event loop a
\* call made from the executor's thread can fall.
Issue(t, c) ==
  /\ calls' = Append(calls, Stamp(engine, c, tasks[t].rid, TRUE))
  /\ engine' = Effect(engine, c)
  /\ faults' = faults

\* A failure the try block does not leave by: the call is logged as raised
\* and the task makes it again.
Raises_retrying(t, c) ==
  /\ faults < MaxFaults
  /\ faults' = faults + 1
  /\ calls' = Append(calls, Stamp(engine, c, tasks[t].rid, FALSE))
  /\ engine' = engine
  /\ tasks' = tasks /\ cur' = t
  /\ UNCHANGED <<history, received>>

\* Task t calls c on the engine and the call raises: the calls the task made
\* before have returned, those that were to follow are not made, and the
\* tool's except clause answers.
Raises(t, c) ==
  /\ faults < MaxFaults
  /\ faults' = faults + 1
  /\ calls' = Append(calls, Stamp(engine, c, tasks[t].rid, FALSE))
  /\ engine' = engine
  /\ \E m \in EngineErrors : Finish(t, except_clause(t, m))

(***************************************************************************)
(* Requests: FastMCP validates the arguments against the tool's input      *)
(* model and calls the tool only when they pass.                           *)
(***************************************************************************)
Dispatch(t, r, limit) ==
  /\ ~stopped /\ cur = 0 /\ received < limit
  /\ tasks[t].pc = "idle" /\ \A u \in 1..(t - 1) : tasks[u].pc # "idle"
  /\ received' = received + 1
  /\ LET v == InputModel(r.tool, r.args)
         rid == received + 1
     IN IF v.ok
        THEN /\ tasks' = [tasks EXCEPT ![t] =
                            [IdleTask EXCEPT !.pc = "call", !.rid = rid, !.tool = r.tool,
                                             !.args = r.args, !.params = v.params]]
             /\ history' = history
        ELSE /\ tasks' = tasks
             /\ history' = Append(history, [rid |-> rid, tool |-> r.tool, args |-> r.args,
                                            kind |-> "rejected", text |-> v.error,
                                            ctl |-> 0, launch |-> "none", behind |-> 0])
  /\ cur' = 0
  /\ UNCHANGED <<sessVars, engVars, envVars, sideVars>>

(***************************************************************************)
(* Controller management: get_controller and the launch.                   *)
(***************************************************************************)
\* A lock that lets every caller in at once.
LockAlwaysFree == TRUE

\* asyncio.Lock.acquire takes the lock at once when it is free and nobody waits.
LockFree == ~locked /\ waiters = <<>>

\* The request whose task holds the lock, 0 when none does.
LockHolder ==
  IF \E u \in Tasks : tasks[u].pc \in {"launching", "launched"}
  THEN tasks[CHOOSE u \in Tasks : tasks[u].pc \in {"launching", "launched"}].rid
  ELSE 0

\* A caller that launches whether or not there is a controller.
NeedsLaunchAlways == TRUE

\* `if _controller is None`
NeedsLaunch == controller = 0

\* Task t holds the lock: it launches when there is no controller, else it
\* returns the controller, releasing the lock, and the tool goes on.
WithLock(t) ==
  IF NeedsLaunch
  THEN /\ locked' = TRUE
       /\ launches' = launches + 1
       /\ controller' = controller
       /\ tasks' = [tasks EXCEPT ![t].pc = "launching", ![t].launch = "started"]
       /\ cur' = 0
       /\ UNCHANGED <<history, received>>
  ELSE /\ locked' = FALSE
       /\ UNCHANGED <<controller, launches>>
       /\ tasks' = [tasks EXCEPT ![t].pc = "body", ![t].ctl = controller]
       /\ cur' = t
       /\ UNCHANGED <<history, received>>

\* A tool starts: `controller = await get_controller()`.
get_controller(t) ==
  /\ cur = 0 /\ tasks[t].pc = "call"
  /\ IF LockFree
     THEN waiters' = waiters /\ WithLock(t)
     ELSE /\ waiters' = Append(waiters, t)
          /\ tasks' = [tasks EXCEPT ![t].pc = "waiting", ![t].behind = LockHolder]
          /\ cur' = 0
          /\ UNCHANGED <<history, received, controller, locked, launches>>
  /\ UNCHANGED <<engVars, envVars, sideVars>>

\* The lock was released and task t is the first waiter.
get_controller_wakeup(t) ==
  /\ cur = 0 /\ tasks[t].pc = "waiting"
  /\ ~locked /\ waiters # <<>> /\ Head(waiters) = t
  /\ waiters' = Tail(waiters)
  /\ WithLock(t)
  /\ UNCHANGED <<engVars, envVars, sideVars>>

RECURSIVE FirstExisting(_)
\* The first path of the list that exists, None when none does.
FirstExisting(paths) ==
  IF paths = <<>> THEN None
  ELSE IF FileExists(Head(paths)) THEN Head(paths)
  ELSE FirstExisting(Tail(paths))

\* The fallback list searched before the primary path.
program_dir_fallback_first(config) ==
  IF FirstExisting(flexsim_alternative_paths(config)) # None
  THEN FirstExisting(flexsim_alternative_paths(config))
  ELSE IF FileExists(flexsim_install_path(config)) THEN flexsim_install_path(config) ELSE None

\* The install directory the launch uses, None when none exists.
program_dir(config) ==
  IF FileExists(flexsim_install_path(config)) THEN flexsim_install_path(config)
  ELSE FirstExisting(flexsim_alternative_paths(config))

LaunchErrors == {"License server unreachable"}

\* FlexSimPy.launch(evaluationLicense=..., showGUI=..., programDir=...)
Launch(dir) == [op |-> "launch", programDir |-> dir]

\* launch_flexsim_sync in the executor's thread, for the task t that waits
\* for it in launch_flexsim.
launch_flexsim_sync(t) ==
  /\ tasks[t].pc = "launching"
  /\ IF ~module_loaded
     THEN /\ tasks' = [tasks EXCEPT ![t].pc = "launched", ![t].fut =
                 [exc |-> TRUE, msg |-> "FlexSimPy module not available", val |-> 0]]
          /\ UNCHANGED <<engVars, cfg_in, cfg_out>>
     ELSE LET config == get_config IN
          /\ cfg_out' = config
          /\ cfg_in' = IF cfg_out.loaded THEN cfg_in ELSE Built(None)
          /\ IF program_dir(config) = None
             THEN /\ tasks' = [tasks EXCEPT ![t].pc = "launched", ![t].fut =
                         [exc |-> TRUE, val |-> 0,
                          msg |-> "FlexSim not found at " \o flexsim_install_path(config)
                                  \o ". Update config.toml with correct path."]]
                  /\ UNCHANGED engVars
             ELSE \/ /\ engine' = FreshEngine
                     /\ calls' = Append(calls, Stamp(FreshEngine, Launch(program_dir(config)),
                                                     tasks[t].rid, TRUE))
                     /\ faults' = faults
                     /\ tasks' = [tasks EXCEPT ![t].pc = "launched", ![t].fut =
                            [exc |-> FALSE, msg |-> "", val |-> tasks[t].rid]]
                  \/ /\ faults < MaxFaults
                     /\ faults' = faults + 1
                     /\ engine' = engine
                     /\ calls' = Append(calls, Stamp(FreshEngine, Launch(program_dir(config)),
                                                     tasks[t].rid, FALSE))
                     /\ \E m \in LaunchErrors :
                          tasks' = [tasks EXCEPT ![t].pc = "launched", ![t].fut =
                            [exc |-> TRUE, msg |-> m, val |-> 0]]
  /\ UNCHANGED <<cur, history, received, sessVars, envVars,
                 fmt_in, fmt_out, cliVars, auxVars>>

\* A get_controller that launches again, in the same call, when the launch
\* failed.
get_controller_retry(t) ==
  /\ cur = 0 /\ tasks[t].pc = "launched"
  /\ IF tasks[t].fut.exc
     THEN /\ locked' = TRUE
          /\ launches' = launches + 1
          /\ controller' = controller
          /\ tasks' = [tasks EXCEPT ![t].pc = "launching", ![t].fut = NoFuture]
          /\ cur' = 0
          /\ UNCHANGED <<history, received>>
     ELSE /\ locked' = FALSE
          /\ launches' = launches
          /\ controller' = tasks[t].fut.val
          /\ tasks' = [tasks EXCEPT ![t].pc = "body", ![t].ctl = tasks[t].fut.val,
                                    ![t].fut = NoFuture, ![t].launch = "ok"]
          /\ cur' = t
          /\ UNCHANGED <<history, received>>
  /\ UNCHANGED <<waiters, engVars, envVars, sideVars>>

\* The launch is over and get_controller goes on: the exception leaves the
\* lock's block and reaches the tool, or _controller is set and returned.
get_controller_resume(t) ==
  /\ cur = 0 /\ tasks[t].pc = "launched"
  /\ locked' = FALSE
  /\ IF tasks[t].fut.exc
     THEN /\ controller' = controller
          /\ Finish(t, [except_clause(t, tasks[t].fut.msg) EXCEPT !.launch = "failed"])
     ELSE /\ controller' = tasks[t].fut.val
          /\ tasks' = [tasks EXCEPT ![t].pc = "body", ![t].ctl = tasks[t].fut.val,
                                    ![t].fut = NoFuture, ![t].launch = "ok"]
          /\ cur' = t
          /\ UNCHANGED <<history, received>>
  /\ UNCHANGED <<waiters, launches, engVars, envVars, sideVars>>

\* A shutdown that drops the controller.
lifespan_shutdown_clearing ==
  /\ ~stopped /\ cur = 0 /\ \A t \in Tasks : tasks[t].pc = "idle"
  /\ stopped' = TRUE
  /\ controller' = 0
  /\ UNCHANGED <<files, module_loaded, locked, waiters, launches, engVars, taskVars, sideVars>>

\* A shutdown that stops the engine it has launched.
lifespan_shutdown_stopping ==
  /\ ~stopped /\ cur = 0 /\ \A t \in Tasks : tasks[t].pc = "idle"
  /\ stopped' = TRUE
  /\ IF controller # 0
     THEN /\ engine' = Effect(engine, [op |-> "stop"])
          /\ calls' = Append(calls, Stamp(engine, [op |-> "stop"], 0, TRUE))
          /\ faults' = faults
     ELSE UNCHANGED engVars
  /\ UNCHANGED <<files, module_loaded, sessVars, taskVars, sideVars>>

\* The lifespan hook after its yield: the server shuts down, no tool call
\* being in flight.
lifespan_shutdown ==
  /\ ~stopped /\ cur = 0 /\ \A t \in Tasks : tasks[t].pc = "idle"
  /\ stopped' = TRUE
  /\ UNCHANGED <<files, module_loaded, sessVars, engVars, taskVars, sideVars>>

(***************************************************************************)
(* The tools, each from the point where get_controller has returned.  A    *)
(* tool runs on the event loop from one await to the next without any      *)
(* other task running there in between, and each call it makes on the      *)
(* controller is a step; the open that flexsim_open_model hands to the     *)
(* executor is made from another thread and can fall between two of them.  *)
(***************************************************************************)
Time == [op |-> "time"]
Reset == [op |-> "reset"]
Run == [op |-> "run"]
Stop == [op |-> "stop"]
RunToTime(time) == [op |-> "runToTime", time |-> time]
Open(path) == [op |-> "open", path |-> path]
Evaluate(script) == [op |-> "evaluate", script |-> script]

\* The engine call c, after which the task goes on at pc on the event loop;
\* or the call raises.
CallThen(t, c, pc) ==
  \/ Issue(t, c) /\ Goto(t, pc)
  \/ Raises(t, c)

\* The engine call c, then `return text`; or the call raises.
CallThenReturn(t, c, text) ==
  \/ Issue(t, c) /\ Return(t, text)
  \/ Raises(t, c)

flexsim_open_model(t) ==
  /\ tasks[t].tool = "flexsim_open_model"
  /\ \/ \* await loop.run_in_executor(None, controller.open, params.model_path)
        /\ At(t, "flexsim_open_model", "body")
        /\ Suspend(t, "opening")
        /\ UNCHANGED engVars
     \/ \* controller.open in the executor's thread
        /\ tasks[t].pc = "opening"
        /\ LET c == Open(tasks[t].params.model_path)
           IN /\ \/ /\ engine' = Effect(engine, c)
                    /\ calls' = Append(calls, Stamp(engine, c, tasks[t].rid, TRUE))
                    /\ faults' = faults
                    /\ tasks' = [tasks EXCEPT ![t].pc = "opened"]
                 \/ /\ faults < MaxFaults
                    /\ faults' = faults + 1
                    /\ engine' = engine
                    /\ calls' = Append(calls, Stamp(engine, c, tasks[t].rid, FALSE))
                    /\ \E m \in EngineErrors :
                         tasks' = [tasks EXCEPT ![t].pc = "opened", ![t].fut =
                                     [exc |-> TRUE, msg |-> m, val |-> 0]]
        /\ UNCHANGED <<cur, history, received>>
     \/ \* the await is over: the exception, or controller.time() and the text
        /\ cur = 0 /\ tasks[t].pc = "opened"
        /\ IF tasks[t].fut.exc
           THEN Finish(t, except_clause(t, tasks[t].fut.msg)) /\ UNCHANGED engVars
           ELSE CallThenReturn(t, Time,
                   CheckMark \o " Opened: " \o PathStem(tasks[t].params.model_path)
                   \o "\nTime: " \o format_time(EngineTime(engine)))
  /\ UNCHANGED <<sessVars, envVars, sideVars>>

flexsim_reset(t) ==
  /\ At(t, "flexsim_reset", "body")
  /\ CallThenReturn(t, Reset, CheckMark \o " Simulation reset to time 0")
  /\ UNCHANGED <<sessVars, envVars, sideVars>>

flexsim_run(t) ==
  /\ At(t, "flexsim_run", "body")
  /\ CallThenReturn(t, Run,
                     CheckMark \o " Simulation running (use flexsim_stop to pause)")
  /\ UNCHANGED <<sessVars, envVars, sideVars>>

mode_str(fast_mode) == IF fast_mode THEN "fast" ELSE "real-time"

\* The text of a completed run from start to end.
complete_text(fast_mode, start, end) ==
  CheckMark \o " Simulation complete (" \o mode_str(fast_mode)
  \o ")\nStart: " \o format_time(start)
  \o "\nEnd: " \o format_time(end)
  \o "\nDuration: " \o format_time(end - start)

\* The target taken as not reached when the clock is exactly on it.
AlreadyPast(start, target_time) == start > target_time

\* `if start >= params.target_time`
AlreadyThere(start, target_time) == start >= target_time

\* A round that stops the engine whatever the time it read.
poll_stop_unchecked(t) ==
  \/ Issue(t, Time) /\ Goto(t, "stop")
  \/ Raises(t, Time)

\* One round of the real-time loop: current = controller.time(); when the
\* target is reached the task goes on to stop the engine, else it sleeps.
\* i counts the rounds slept.
poll(t) ==
  LET current == EngineTime(engine)
      round == IF tasks[t].pc = "sleep" THEN tasks[t].i + 1 ELSE 0
  IN \/ /\ Issue(t, Time)
        /\ IF current >= tasks[t].params.target_time
           THEN Goto(t, "stop")
           ELSE /\ tasks' = [tasks EXCEPT ![t].pc = "sleep", ![t].i = round]
                /\ cur' = 0
                /\ UNCHANGED <<history, received>>
     \/ Raises(t, Time)

\* The rounds of the real-time loop a specification follows; the loop
\* itself, flexsim_run_to_time, has no limit.
RoundsLeft(t) == tasks[t].pc = "sleep" => tasks[t].i <= MaxTicks

flexsim_run_to_time(t) ==
  LET p == tasks[t].params
      setstoptime == Evaluate("setstoptime(" \o FloatStr(p.target_time) \o ")")
  IN
  /\ tasks[t].tool = "flexsim_run_to_time"
  /\ \/ \* start = controller.time(), and the return when the target is
        \* reached already
        /\ At(t, "flexsim_run_to_time", "body")
        /\ LET start == EngineTime(engine)
           IN \/ /\ Issue(t, Time)
                 /\ IF AlreadyThere(start, p.target_time)
                    THEN Return(t, "Already at time " \o format_time(start))
                    ELSE /\ tasks' = [tasks EXCEPT
                                        ![t].pc = IF p.fast_mode THEN "blocking"
                                                  ELSE "setstoptime",
                                        ![t].start = start]
                         /\ cur' = t
                         /\ UNCHANGED <<history, received>>
              \/ Raises(t, Time)
     \/ \* fast mode: the task calls controller.runToTime(target_time) on the
        \* event loop, which it keeps until the call has returned
        /\ At(t, "flexsim_run_to_time", "blocking")
        /\ CallThen(t, RunToTime(p.target_time), "end")
     \/ \* real-time mode: controller.evaluate(f"setstoptime({target_time})")
        /\ At(t, "flexsim_run_to_time", "setstoptime")
        /\ CallThen(t, setstoptime, "run")
     \/ \* controller.run()
        /\ At(t, "flexsim_run_to_time", "run")
        /\ CallThen(t, Run, "poll")
     \/ \* a round of the loop: the first, or the next when
        \* await asyncio.sleep(0.1) is over
        /\ \/ At(t, "flexsim_run_to_time", "poll")
           \/ cur = 0 /\ tasks[t].pc = "sleep"
        /\ poll(t)
     \/ \* controller.stop(), and the loop is left
        /\ At(t, "flexsim_run_to_time", "stop")
        /\ CallThen(t, Stop, "end")
     \/ \* end = controller.time(), and the text
        /\ At(t, "flexsim_run_to_time", "end")
        /\ CallThenReturn(t, Time,
              complete_text(p.fast_mode, tasks[t].start, EngineTime(engine)))
  /\ UNCHANGED <<sessVars, envVars, sideVars>>

\* A stop that answers with the time it had before, reading nothing back.
flexsim_stop_unconfirmed(t) ==
  /\ At(t, "flexsim_stop", "body")
  /\ CallThenReturn(t, Stop,
        CheckMark \o " Stopped at " \o format_time(EngineTime(engine)))
  /\ UNCHANGED <<sessVars, envVars, sideVars>>

flexsim_stop(t) ==
  /\ tasks[t].tool = "flexsim_stop"
  /\ \/ \* controller.stop()
        /\ At(t, "flexsim_stop", "body")
        /\ CallThen(t, Stop, "stopped")
     \/ \* time = controller.time(), and the text
        /\ At(t, "flexsim_stop", "stopped")
        /\ CallThenReturn(t, Time,
              CheckMark \o " Stopped at " \o format_time(EngineTime(engine)))
  /\ UNCHANGED <<sessVars, envVars, sideVars>>

flexsim_get_time(t) ==
  /\ At(t, "flexsim_get_time", "body")
  /\ CallThenReturn(t, Time,
        "Time: " \o format_time(EngineTime(engine))
        \o " (" \o Fixed2(EngineTime(engine)) \o "s)")
  /\ UNCHANGED <<sessVars, envVars, sideVars>>

\* A loop that stops one round early.
step_loop_short(steps) == [k \in 1..(steps - 1) |-> Evaluate("step()")]

\* `for _ in range(params.steps): controller.evaluate("step()")`
step_loop(steps) == [k \in 1..steps |-> Evaluate("step()")]

flexsim_step(t) ==
  LET p == tasks[t].params
      loop == step_loop(p.steps)
  IN
  /\ tasks[t].tool = "flexsim_step"
  /\ \/ \* start = controller.time()
        /\ At(t, "flexsim_step", "body")
        /\ \/ /\ Issue(t, Time)
              /\ tasks' = [tasks EXCEPT ![t].pc = "stepping", ![t].i = 0,
                                        ![t].start = EngineTime(engine)]
              /\ cur' = t
              /\ UNCHANGED <<history, received>>
           \/ Raises(t, Time)
     \/ \* the next round of the for loop: controller.evaluate("step()")
        /\ At(t, "flexsim_step", "stepping")
        /\ tasks[t].i < Len(loop)
        /\ \/ /\ Issue(t, loop[tasks[t].i + 1])
              /\ tasks' = [tasks EXCEPT ![t].i = tasks[t].i + 1]
              /\ cur' = t
              /\ UNCHANGED <<history, received>>
           \/ Raises(t, loop[tasks[t].i + 1])
     \/ \* the loop is over: end = controller.time(), and the text
        /\ At(t, "flexsim_step", "stepping")
        /\ tasks[t].i >= Len(loop)
        /\ CallThenReturn(t, Time,
              CheckMark \o " Stepped " \o ToString(p.steps) \o " events\nTime: "
              \o format_time(tasks[t].start) \o " " \o Arrow \o " "
              \o format_time(EngineTime(engine)))
  /\ UNCHANGED <<sessVars, envVars, sideVars>>

flexsim_evaluate(t) ==
  /\ At(t, "flexsim_evaluate", "body")
  /\ CallThenReturn(t, Evaluate(tasks[t].params.script),
        "Result: " \o EvaluateResult(engine, tasks[t].params.script))
  /\ UNCHANGED <<sessVars, envVars, sideVars>>

getvalue_script(node_path) == "getvalue(node(\"" \o node_path \o "\"))"

flexsim_get_node_value(t) ==
  LET script == getvalue_script(tasks[t].params.node_path)
  IN
  /\ At(t, "flexsim_get_node_value", "body")
  /\ CallThenReturn(t, Evaluate(script),
        tasks[t].params.node_path \o " = " \o EvaluateResult(engine, script))
  /\ UNCHANGED <<sessVars, envVars, sideVars>>

setvalue_script(node_path, value) ==
  IF Has(value, "str")
  THEN "setvalue(node(\"" \o node_path \o "\"), \"" \o value.str \o "\")"
  ELSE "setvalue(node(\"" \o node_path \o "\"), " \o ToString(value.num) \o ")"

\* A set_node_value that awaits between setting the value and reading it
\* back.
flexsim_set_node_value_awaiting(t) ==
  LET p == tasks[t].params
      verify == getvalue_script(p.node_path)
      script == setvalue_script(p.node_path, p.value)
  IN
  /\ tasks[t].tool = "flexsim_set_node_value"
  /\ \/ /\ At(t, "flexsim_set_node_value", "body")
        /\ Issue(t, Evaluate(script))
        /\ Suspend(t, "verify")
     \/ /\ cur = 0 /\ tasks[t].pc = "verify"
        /\ CallThenReturn(t, Evaluate(verify),
              CheckMark \o " " \o p.node_path \o " = " \o EvaluateResult(engine, verify))
  /\ UNCHANGED <<sessVars, envVars, sideVars>>

flexsim_set_node_value(t) ==
  LET p == tasks[t].params
      verify == getvalue_script(p.node_path)
  IN
  /\ tasks[t].tool = "flexsim_set_node_value"
  /\ \/ /\ At(t, "flexsim_set_node_value", "body")
        /\ IF ~Has(p, "value")
           THEN \* if params.value is None: return "Error: No value provided"
                Return(t, "Error: No value provided") /\ UNCHANGED engVars
           ELSE \* controller.evaluate(script)
                CallThen(t, Evaluate(setvalue_script(p.node_path, p.value)), "verify")
     \/ \* new_value = controller.evaluate(verify), and the text
        /\ At(t, "flexsim_set_node_value", "verify")
        /\ CallThenReturn(t, Evaluate(verify),
              CheckMark \o " " \o p.node_path \o " = " \o EvaluateResult(engine, verify))
  /\ UNCHANGED <<sessVars, envVars, sideVars>>

flexsim_save_model(t) ==
  LET p == tasks[t].params
      given == Has(p, "save_path") /\ p.save_path # ""
  IN
  /\ At(t, "flexsim_save_model", "body")
  /\ CallThenReturn(t,
        Evaluate(IF given THEN "savemodel(\"" \o p.save_path \o "\")" ELSE "savemodel()"),
        CheckMark \o " Model saved to " \o (IF given THEN p.save_path ELSE "current location"))
  /\ UNCHANGED <<sessVars, envVars, sideVars>>

flexsim_new_model(t) ==
  /\ At(t, "flexsim_new_model", "body")
  /\ CallThenReturn(t, Evaluate("newmodel()"), CheckMark \o " New blank model created")
  /\ UNCHANGED <<sessVars, envVars, sideVars>>

flexsim_compile(t) ==
  /\ At(t, "flexsim_compile", "body")
  /\ CallThenReturn(t, Evaluate("compilemodel()"),
        CheckMark \o " Compilation complete: " \o EvaluateResult(engine, "compilemodel()"))
  /\ UNCHANGED <<sessVars, envVars, sideVars>>

stats_script ==
  "\n        {\n            \"time\": getmodeltime(),\n"
  \o "            \"run_speed\": get(runspeed()),\n"
  \o "            \"objects\": Model.subnodes.length,\n"
  \o "            \"events\": geteventsprocessed()\n        }\n        "

flexsim_get_statistics(t) ==
  /\ At(t, "flexsim_get_statistics", "body")
  /\ CallThenReturn(t, Evaluate(stats_script),
        "Statistics:\n" \o Fence \o "json\n" \o EvaluateResult(engine, stats_script)
        \o "\n" \o Fence)
  /\ UNCHANGED <<sessVars, envVars, sideVars>>

\* The format compared as it was given, without lower().
export_script_exact(export_path, format) ==
  IF format = "csv" THEN "exporttable(\"" \o export_path \o "\")"
  ELSE IF format = "xlsx" THEN "exportexcel(\"" \o export_path \o "\")"
  ELSE "exportjson(\"" \o export_path \o "\")"

export_script(export_path, format) ==
  LET fmt == Lower(format)
  IN IF fmt = "csv" THEN "exporttable(\"" \o export_path \o "\")"
     ELSE IF fmt = "xlsx" THEN "exportexcel(\"" \o export_path \o "\")"
     ELSE "exportjson(\"" \o export_path \o "\")"

flexsim_export_results(t) ==
  LET p == tasks[t].params
  IN
  /\ At(t, "flexsim_export_results", "body")
  /\ CallThenReturn(t, Evaluate(export_script(p.export_path, p.format)),
        CheckMark \o " Results exported to " \o p.export_path)
  /\ UNCHANGED <<sessVars, envVars, sideVars>>

Request(tool, args) == [tool |-> tool, args |-> args]
NoArgs == [none |-> TRUE]

(***************************************************************************)
(* The stdio channel: the test client (tests/integration/test_mcp_client,  *)
(* class MCPClient) writes one message a line to the server's stdin and    *)
(* reads the lines of its stdout, which are the responses in history.      *)
(***************************************************************************)
\* The client at the other end of the pipes before its first message:
\* MCPClient.__init__ of the test client, or the Gradio client before
\* connect.  pc is where the client is, want the id whose response
\* send_message awaits, replies what each request returned: the id it was
\* sent with and the line read; overlap tells that a request was written
\* while another was unanswered.
NewClient ==
  [message_id |-> 0, pc |-> "new", want |-> 0, then |-> "", read |-> 0, replies |-> <<>>,
   error |-> "", overlap |-> FALSE]

\* The messages sent that carry an id, in order.
RequestsSent == SelectSeq(sent, LAMBDA m : m.id # 0)

\* A notification that carries an id, as a request does.
send_notification_with_id(method, then) ==
  /\ sent' = Append(sent, [id |-> client.message_id + 1, method |-> method,
                           tool |-> "", args |-> NoArgs])
  /\ client' = [client EXCEPT !.message_id = client.message_id + 1, !.pc = then]
  /\ UNCHANGED <<notified, pureVars, auxVars, sessVars, engVars, taskVars, envVars>>

\* MCPClient.send_notification: the message has no id (0 here), and no line
\* is read.
send_notification(method, then) ==
  /\ sent' = Append(sent, [id |-> 0, method |-> method, tool |-> "", args |-> NoArgs])
  /\ client' = [client EXCEPT !.pc = then]
  /\ UNCHANGED <<notified, pureVars, auxVars, sessVars, engVars, taskVars, envVars>>

\* MCPClient.send_message up to its readline: the next id, the message
\* written and drained.
send_message(method, tool, args, then) ==
  /\ sent' = Append(sent, [id |-> client.message_id + 1, method |-> method,
                           tool |-> tool, args |-> args])
  /\ client' = [client EXCEPT !.message_id = client.message_id + 1, !.want = client.message_id + 1,
                              !.pc = "readline", !.then = then]
  /\ UNCHANGED <<notified, pureVars, auxVars, sessVars, engVars, taskVars, envVars>>

\* `response_line = await self.process.stdout.readline()`, and the return
\* of send_message: the next line of the server's stdout, once it is there;
\* at the end of the file, the server having exited, readline returns b""
\* and send_message raises "No response from server" through the method
\* of the client that called it.
readline ==
  /\ client.pc = "readline"
  /\ \/ /\ client.read < Len(history)
        /\ client' = [client EXCEPT !.read = client.read + 1, !.pc = client.then,
                                    !.replies = Append(client.replies,
                                       [id |-> client.want, line |-> client.read + 1])]
     \/ /\ client.read = Len(history) /\ stopped
        /\ client' = [client EXCEPT !.pc = "raised", !.error = "No response from server"]
  /\ UNCHANGED <<sent, notified, pureVars, auxVars, sessVars, engVars, taskVars, envVars>>

\* MCPClient.initialize: the initialize request, then the notification.
initialize ==
  \/ client.pc = "new" /\ send_message("initialize", "", NoArgs, "initialized")
  \/ client.pc = "initialized" /\ send_notification("notifications/initialized", "ready")

\* MCPClient.list_tools
list_tools == client.pc = "ready" /\ send_message("tools/list", "", NoArgs, "ready")

\* MCPClient.call_tool
call_tool(tool_name, arguments) ==
  client.pc = "ready" /\ send_message("tools/call", tool_name, arguments, "ready")

\* ClientSession.send_request of the Gradio client's session: the request is
\* written with the next id, whatever is still unanswered, and the
\* coroutine that awaits it goes on when the response that echoes the id
\* has been read.
session_send_request(method, tool, args, then) ==
  /\ sent' = Append(sent, [id |-> client.message_id + 1, method |-> method,
                           tool |-> tool, args |-> args])
  /\ client' = [client EXCEPT !.message_id = client.message_id + 1, !.pc = then,
                              !.overlap = client.overlap \/ client.message_id > client.read]
  /\ UNCHANGED <<notified, pureVars, auxVars, sessVars, engVars, taskVars, envVars>>

\* The session's reader: the next line of the server's stdout goes to the
\* request whose id it echoes, and connect goes on when it awaited it.
session_receive ==
  /\ client.pc \in {"initializing", "listing", "connected"}
  /\ client.read < Len(history)
  /\ LET line == client.read + 1
     IN client' = [client EXCEPT
           !.read = line,
           !.replies = Append(client.replies,
                          [id |-> RequestsSent[history[line].rid].id, line |-> line]),
           !.pc = CASE client.pc = "initializing" -> "session"
                    [] client.pc = "listing" -> "connected"
                    [] OTHER -> client.pc]
  /\ UNCHANGED <<sent, notified, pureVars, auxVars, sessVars, engVars, taskVars, envVars>>

\* MCPClientWrapper.connect of the Gradio client, from its
\* `await self.session.initialize()`: the initialize request and, after its
\* response, the notification; then `await self.session.list_tools()`.
session_connect ==
  \/ client.pc = "new"
     /\ session_send_request("initialize", "", NoArgs, "initializing")
  \/ client.pc = "session"
     /\ send_notification("notifications/initialized", "initialized_session")
  \/ client.pc = "initialized_session"
     /\ session_send_request("tools/list", "", NoArgs, "listing")

\* MCPClientWrapper.call_tool of the Gradio client, connected:
\* `await self.session.call_tool(tool_name, arguments)`.  The handlers of
\* the interface are coroutines on one session: one can call while the
\* call of another is unanswered.
session_call_tool(tool_name, arguments) ==
  /\ client.pc = "connected"
  /\ session_send_request("tools/call", tool_name, arguments, "connected")

\* The server reads the next message of its stdin: a notification is taken
\* in and nothing is written; a tools/call is dispatched to its tool; any
\* other request is answered at once.
stdio_read(t) ==
  LET m == sent[received + notified + 1]
  IN /\ ~stopped /\ cur = 0 /\ received + notified < Len(sent)
     /\ \/ /\ m.id = 0
           /\ notified' = notified + 1
           /\ UNCHANGED <<sent, client, pureVars, auxVars, sessVars, engVars, taskVars, envVars>>
        \/ /\ m.id # 0 /\ m.method = "tools/call"
           /\ Dispatch(t, [tool |-> m.tool, args |-> m.args], Len(sent))
        \/ /\ m.id # 0 /\ m.method # "tools/call"
           /\ received' = received + 1
           /\ history' = Append(history, [rid |-> received + 1, tool |-> m.method,
                                          args |-> m.args, kind |-> "result", text |-> "",
                                          ctl |-> 0, launch |-> "none", behind |-> 0])
           /\ UNCHANGED <<tasks, cur, sessVars, engVars, envVars, sideVars>>

\* A step of get_controller for task t.
Session(t) ==
  \/ get_controller(t)
  \/ get_controller_wakeup(t)
  \/ launch_flexsim_sync(t)
  \/ get_controller_resume(t)

\* What may exist on disk: the files with or without an install directory.
FileSystems == {DiskFiles \cup {ListedPaths[2]}, DiskFiles}

InitServerWith(input) ==
  /\ controller = 0 /\ locked = FALSE /\ waiters = <<>> /\ launches = 0
  /\ engine = FreshEngine /\ calls = <<>>
  /\ tasks = [t \in Tasks |-> IdleTask] /\ cur = 0
  /\ history = <<>> /\ received = 0
  /\ stopped = FALSE
  /\ fmt_in = 0 /\ fmt_out = ""
  /\ cfg_in = input /\ cfg_out = NotLoaded
  /\ sent = <<>> /\ notified = 0 /\ client = NewClient
  /\ InitAux

InitServer == InitServerWith(ServerConfigInput)

(***************************************************************************)
(* Spec: the server under concurrent tool calls, one of them offloading    *)
(* its engine call to the executor.                                        *)
(***************************************************************************)
Pool ==
  { Request("flexsim_open_model", [model_path |-> ModelFile]),
    Request("flexsim_stop", NoArgs),
    Request("flexsim_get_time", NoArgs) }

Init ==
  /\ InitServer
  /\ faults = 0
  /\ files \in FileSystems
  /\ module_loaded \in BOOLEAN

Next ==
  \/ \E t \in Tasks : \E r \in Pool : Dispatch(t, r, MaxRequests)
  \/ \E t \in Tasks : Session(t)
  \/ \E t \in Tasks : flexsim_open_model(t)
  \/ \E t \in Tasks : flexsim_stop(t)
  \/ \E t \in Tasks : flexsim_get_time(t)

Spec == Init /\ [][Next]_vars

(***************************************************************************)
(* SpecTools: every tool, the requests answered one at a time, up to the    *)
(* server's shutdown; the engine's clock moves with the calls only (a      *)
(* model with no event pending).                                           *)
(***************************************************************************)
ToolPool ==
  { Request("flexsim_open_model", [model_path |-> ModelFile]),
    Request("flexsim_reset", NoArgs),
    Request("flexsim_run", NoArgs),
    Request("flexsim_run_to_time", [target_time |-> 45]),
    Request("flexsim_run_to_time", [target_time |-> 15, fast_mode |-> TRUE]),
    Request("flexsim_stop", NoArgs),
    Request("flexsim_get_time", NoArgs),
    Request("flexsim_step", [steps |-> 2]),
    Request("flexsim_evaluate", [script |-> "getmodeltime()"]),
    Request("flexsim_get_node_value", [node_path |-> "Model/Queue1"]),
    Request("flexsim_set_node_value", [node_path |-> "Model/Queue1", value |-> [num |-> 5]]),
    Request("flexsim_save_model", NoArgs),
    Request("flexsim_new_model", NoArgs),
    Request("flexsim_compile", NoArgs),
    Request("flexsim_get_statistics", NoArgs),
    Request("flexsim_export_results", [export_path |-> "out.csv", format |-> "XLSX"]) }

\* A step of the tool that task t is in.
Tool(t) ==
  \/ flexsim_open_model(t)
  \/ flexsim_reset(t)
  \/ flexsim_run(t)
  \/ flexsim_run_to_time(t)
  \/ flexsim_stop(t)
  \/ flexsim_get_time(t)
  \/ flexsim_step(t)
  \/ flexsim_evaluate(t)
  \/ flexsim_get_node_value(t)
  \/ flexsim_set_node_value(t)
  \/ flexsim_save_model(t)
  \/ flexsim_new_model(t)
  \/ flexsim_compile(t)
  \/ flexsim_get_statistics(t)
  \/ flexsim_export_results(t)

\* get_controller when no other task is in it.
SessionAlone(t) ==
  \/ get_controller(t)
  \/ launch_flexsim_sync(t)
  \/ get_controller_resume(t)

NextTools ==
  \/ \E r \in ToolPool : Dispatch(1, r, MaxToolRequests)
  \/ SessionAlone(1)
  \/ RoundsLeft(1) /\ Tool(1)
  \/ lifespan_shutdown

SpecTools == Init /\ [][NextTools]_vars

(***************************************************************************)
(* SpecClock: the tools that run the engine and read its clock, the clock  *)
(* of the running engine advancing between two runs of the event loop.     *)
(***************************************************************************)
ClockPool ==
  { Request("flexsim_reset", NoArgs),
    Request("flexsim_run", NoArgs),
    Request("flexsim_run_to_time", [target_time |-> 45]),
    Request("flexsim_run_to_time", [target_time |-> 15, fast_mode |-> TRUE]),
    Request("flexsim_stop", NoArgs),
    Request("flexsim_get_time", NoArgs),
    Request("flexsim_step", [steps |-> 2]) }

NextClock ==
  \/ \E r \in ClockPool : Dispatch(1, r, MaxClockRequests)
  \/ SessionAlone(1)
  \/ flexsim_reset(1)
  \/ flexsim_run(1)
  \/ RoundsLeft(1) /\ flexsim_run_to_time(1)
  \/ flexsim_stop(1)
  \/ flexsim_get_time(1)
  \/ flexsim_step(1)
  \/ Tick

SpecClock == Init /\ [][NextClock]_vars

(***************************************************************************)
(* SpecOne: requests with arguments on and around the limits of the input  *)
(* models, to an engine that answers every call.                           *)
(***************************************************************************)
OnePool ==
  { Request("flexsim_open_model", a) :
      a \in {[model_path |-> q] :
               q \in {ModelFile, "plant.fsx", "ghost.fsm", "notes.txt", ".fsm",
                      "old/line.fsm.bak", "plant", "", "./plant.fsx", "plant.fsx/",
                      "models/../plant.fsx", "nosuch/../plant.fsx"}} \cup {NoArgs} }
  \cup { Request("flexsim_step", a) :
      a \in {[steps |-> n] : n \in {-1, 0, 1, 2, 1000, 1001}} \cup {NoArgs} }
  \cup { Request("flexsim_evaluate", a) :
      a \in {[script |-> Repeat("a", n)] : n \in {0, 1, 10000, 10001}}
            \cup {[script |-> "getmodeltime()"], NoArgs} }
  \cup { Request("flexsim_run_to_time", a) :
      a \in {[target_time |-> 0], [target_time |-> -5, fast_mode |-> TRUE], NoArgs} }
  \cup { Request("flexsim_get_node_value", a) :
      a \in {[node_path |-> "Model/Queue1"], [node_path |-> ""], NoArgs} }
  \cup { Request("flexsim_set_node_value", a) :
      a \in {[node_path |-> "Model/Queue1", value |-> [str |-> "on"]],
             [node_path |-> "Model/Queue1"], [value |-> [num |-> 5]]} }
  \cup { Request("flexsim_export_results", a) :
      a \in {[export_path |-> "out.json", format |-> "json"], NoArgs} }

NextOne ==
  \/ \E r \in OnePool : Dispatch(1, r, MaxOneRequests)
  \/ SessionAlone(1)
  \/ flexsim_open_model(1)
  \/ flexsim_step(1)
  \/ flexsim_evaluate(1)
  \/ flexsim_get_node_value(1)
  \/ flexsim_set_node_value(1)
  \/ flexsim_export_results(1)

\* The engine raises nothing here: the faults are spent from the start.
InitOne ==
  /\ InitServer
  /\ faults = MaxFaults
  /\ files \in FileSystems
  /\ module_loaded \in BOOLEAN

SpecOne == InitOne /\ [][NextOne]_vars

(***************************************************************************)
(* SpecScenario: a client that opens a model, resets it, runs it in fast   *)
(* mode and reads the time, in any order, one request after the other.     *)
(***************************************************************************)
ScenarioPool ==
  { Request("flexsim_open_model", [model_path |-> ModelFile]),
    Request("flexsim_reset", NoArgs),
    Request("flexsim_run_to_time", [target_time |-> 3600, fast_mode |-> TRUE]),
    Request("flexsim_run_to_time", [target_time |-> 45, fast_mode |-> TRUE]),
    Request("flexsim_get_time", NoArgs) }

NextScenario ==
  \/ \E r \in ScenarioPool : Dispatch(1, r, MaxScenarioRequests)
  \/ SessionAlone(1)
  \/ flexsim_open_model(1)
  \/ flexsim_reset(1)
  \/ RoundsLeft(1) /\ flexsim_run_to_time(1)
  \/ flexsim_get_time(1)

SpecScenario == Init /\ [][NextScenario]_vars

(***************************************************************************)
(* SpecFormat: format_time applied to a time value.                        *)
(***************************************************************************)
InitFormat ==
  /\ controller = 0 /\ locked = FALSE /\ waiters = <<>> /\ launches = 0
  /\ engine = FreshEngine /\ calls = <<>> /\ faults = 0
  /\ tasks = [t \in Tasks |-> IdleTask] /\ cur = 0
  /\ history = <<>> /\ received = 0
  /\ stopped = FALSE /\ files = DiskFiles /\ module_loaded = TRUE
  /\ fmt_in \in 0..MaxFormatSeconds /\ fmt_out = ""
  /\ cfg_in = NoConfigInput /\ cfg_out = NotLoaded
  /\ sent = <<>> /\ notified = 0 /\ client = NewClient
  /\ InitAux

Format ==
  /\ fmt_out = ""
  /\ fmt_out' = format_time(fmt_in)
  /\ UNCHANGED <<fmt_in, cfg_in, cfg_out, cliVars, auxVars, sessVars, engVars, taskVars, envVars>>

SpecFormat == InitFormat /\ [][Format]_vars

(***************************************************************************)
(* SpecError: format_error applied to the message of an exception. The     *)
(* message is made of words: the four keywords in three spellings each,    *)
(* and words that are near a keyword without containing one.               *)
(***************************************************************************)
ErrorWords ==
  { [text |-> "not found", key |-> "not found"],
    [text |-> "Not Found", key |-> "not found"],
    [text |-> "NOT FOUND", key |-> "not found"],
    [text |-> "syntax", key |-> "syntax"],
    [text |-> "Syntax", key |-> "syntax"],
    [text |-> "SYNTAX", key |-> "syntax"],
    [text |-> "license", key |-> "license"],
    [text |-> "License", key |-> "license"],
    [text |-> "LICENSE", key |-> "license"],
    [text |-> "permission", key |-> "permission"],
    [text |-> "Permission", key |-> "permission"],
    [text |-> "PERMISSION", key |-> "permission"],
    [text |-> "notfound", key |-> ""],
    [text |-> "licence", key |-> ""],
    [text |-> "timeout", key |-> ""],
    [text |-> "SYNTAXE ERRONÉE", key |-> "syntax"],
    [text |-> "ΆΔΕΙΑ ΧΡΉΣΗΣ", key |-> ""] }

ErrorInputs == UNION { [1..n -> ErrorWords] : n \in 0..MaxErrorWords }

\* str(e): the words of the message, one after the other.
RECURSIVE ErrorMessage(_)
ErrorMessage(words) ==
  IF Len(words) = 0 THEN ""
  ELSE IF Len(words) = 1 THEN words[1].text
  ELSE words[1].text \o "; " \o ErrorMessage(Tail(words))

InitIdle ==
  /\ controller = 0 /\ locked = FALSE /\ waiters = <<>> /\ launches = 0
  /\ engine = FreshEngine /\ calls = <<>> /\ faults = 0
  /\ tasks = [t \in Tasks |-> IdleTask] /\ cur = 0
  /\ history = <<>> /\ received = 0
  /\ stopped = FALSE /\ files = DiskFiles /\ module_loaded = TRUE
  /\ fmt_in = 0 /\ fmt_out = ""
  /\ cfg_in = NoConfigInput /\ cfg_out = NotLoaded
  /\ sent = <<>> /\ notified = 0 /\ client = NewClient

InitError ==
  /\ InitIdle
  /\ err_in \in ErrorInputs /\ err_out = ""
  /\ app = [pc |-> "none"] /\ build = [pc |-> "none"]

FormatError ==
  /\ err_out = ""
  /\ err_out' = format_error(ErrorMessage(err_in))
  /\ UNCHANGED <<err_in, appVars, pureVars, cliVars, sessVars, engVars, taskVars, envVars>>

SpecError == InitError /\ [][FormatError]_vars

(***************************************************************************)
(* SpecLaunch: the first requests to a server whose disk holds any of the  *)
(* configured install directories, or none, up to its shutdown.            *)
(***************************************************************************)
InstallDirs == {DefaultInstallPath} \cup {ListedPaths[k] : k \in 1..Len(ListedPaths)}

LaunchFileSystems == {DiskFiles \cup dirs : dirs \in SUBSET InstallDirs}

LaunchPool ==
  { Request("flexsim_get_time", NoArgs),
    Request("flexsim_evaluate", [script |-> "getmodeltime()"]),
    Request("flexsim_run_to_time", [target_time |-> 0]) }

\* The working directory's config.toml there or not, and the project
\* root's.
LaunchConfigInputs ==
  {[NoConfigInput EXCEPT !.disk = [q \in TomlPaths |->
       IF q = cwd_config THEN a ELSE IF q = project_root THEN b ELSE "absent"]] :
     a \in {"toml", "absent"}, b \in {"toml", "absent"}}

InitLaunch ==
  /\ \E input \in LaunchConfigInputs : InitServerWith(input)
  /\ faults = 0
  /\ files \in LaunchFileSystems
  /\ module_loaded \in BOOLEAN

NextLaunch ==
  \/ \E r \in LaunchPool : Dispatch(1, r, MaxLaunchRequests)
  \/ SessionAlone(1)
  \/ flexsim_get_time(1)
  \/ flexsim_evaluate(1)
  \/ lifespan_shutdown

SpecLaunch == InitLaunch /\ [][NextLaunch]_vars

(***************************************************************************)
(* SpecLoop: concurrent tool calls, among them runs in fast mode and the   *)
(* opening of a model, to an engine that answers every call.               *)
(***************************************************************************)
LoopPool ==
  { Request("flexsim_run_to_time", [target_time |-> 15, fast_mode |-> TRUE]),
    Request("flexsim_open_model", [model_path |-> ModelFile]),
    Request("flexsim_get_time", NoArgs) }

NextLoop ==
  \/ \E t \in Tasks : \E r \in LoopPool : Dispatch(t, r, MaxLoopRequests)
  \/ \E t \in Tasks : Session(t)
  \/ \E t \in Tasks : RoundsLeft(t) /\ flexsim_run_to_time(t)
  \/ \E t \in Tasks : flexsim_open_model(t)
  \/ \E t \in Tasks : flexsim_get_time(t)

SpecLoop == InitOne /\ [][NextLoop]_vars

(***************************************************************************)
(* SpecConfig: a configuration built from any argument, environment and    *)
(* disk.                                                                   *)
(***************************************************************************)
ConfigArgs == {None, "", ArgToml}

ConfigInputs ==
  [config_path : {None},
   environ : {[NoEnviron EXCEPT !.FLEXSIM_CONFIG_PATH = q, !.FLEXSIM_INSTALL_PATH = d] :
                 q \in {None, "", EnvToml}, d \in {None, "E:/FlexSim/program"}},
   disk : [TomlPaths -> FileStates]]

InitConfig ==
  /\ controller = 0 /\ locked = FALSE /\ waiters = <<>> /\ launches = 0
  /\ engine = FreshEngine /\ calls = <<>> /\ faults = 0
  /\ tasks = [t \in Tasks |-> IdleTask] /\ cur = 0
  /\ history = <<>> /\ received = 0
  /\ stopped = FALSE /\ files = DiskFiles /\ module_loaded = TRUE
  /\ fmt_in = 0 /\ fmt_out = ""
  /\ cfg_in \in ConfigInputs /\ cfg_out = NotLoaded
  /\ sent = <<>> /\ notified = 0 /\ client = NewClient
  /\ InitAux

NextConfig ==
  \/ \E config_path \in ConfigArgs : reload_config(config_path)
  \/ get_config_call
  \/ \E given \in BOOLEAN, config_path \in ConfigArgs : set_config(given, config_path)

SpecConfig == InitConfig /\ [][NextConfig]_vars

(***************************************************************************)
(* SpecChannel: a client and the server on the two pipes.  The client is   *)
(* the test client, which reads a line after each request it writes, or    *)
(* the Gradio client, whose handlers call tools on one session.            *)
(***************************************************************************)
ChannelPool ==
  { Request("flexsim_open_model", [model_path |-> ModelFile]),
    Request("flexsim_reset", NoArgs),
    Request("flexsim_get_time", NoArgs),
    Request("flexsim_run", NoArgs),
    Request("flexsim_stop", NoArgs) }

\* The requests of test_flexsim_run, in its order.
TestFlexsimRun ==
  << [method |-> "initialize", tool |-> "", args |-> NoArgs],
     [method |-> "tools/list", tool |-> "", args |-> NoArgs],
     [method |-> "tools/call", tool |-> "flexsim_open_model", args |-> [model_path |-> ModelFile]],
     [method |-> "tools/call", tool |-> "flexsim_reset", args |-> NoArgs],
     [method |-> "tools/call", tool |-> "flexsim_get_time", args |-> NoArgs],
     [method |-> "tools/call", tool |-> "flexsim_run", args |-> NoArgs],
     [method |-> "tools/call", tool |-> "flexsim_stop", args |-> NoArgs],
     [method |-> "tools/call", tool |-> "flexsim_get_time", args |-> NoArgs] >>

\* The client has sent what test_flexsim_run sends, as far as it has got,
\* and the message is the test's next.
InTest(method, tool, args) ==
  LET ids == SelectSeq(sent, LAMBDA m : m.id # 0)
  IN /\ Len(ids) < Len(TestFlexsimRun)
     /\ \A k \in 1..Len(ids) :
           [method |-> ids[k].method, tool |-> ids[k].tool, args |-> ids[k].args]
              = TestFlexsimRun[k]
     /\ TestFlexsimRun[Len(ids) + 1] = [method |-> method, tool |-> tool, args |-> args]

\* The requests followed: any MaxChannelRequests of them, and the whole of
\* test_flexsim_run.
ChannelBudget(method, tool, args) ==
  client.message_id < MaxChannelRequests \/ InTest(method, tool, args)

\* The tool calls of the Gradio client that are followed.
SessionPool ==
  { Request("flexsim_open_model", [model_path |-> ModelFile]),
    Request("flexsim_get_time", NoArgs) }

SessionBudget == client.message_id < 2 + MaxSessionCalls

NextChannel ==
  \/ (client.pc = "new" => ChannelBudget("initialize", "", NoArgs)) /\ initialize
  \/ ChannelBudget("tools/list", "", NoArgs) /\ list_tools
  \/ \E r \in ChannelPool : ChannelBudget("tools/call", r.tool, r.args) /\ call_tool(r.tool, r.args)
  \/ readline
  \/ session_connect
  \/ \E r \in SessionPool : SessionBudget /\ session_call_tool(r.tool, r.args)
  \/ session_receive
  \/ \E t \in Tasks : stdio_read(t)
  \/ \E t \in Tasks : Session(t)
  \/ \E t \in Tasks : flexsim_open_model(t)
  \/ \E t \in Tasks : flexsim_reset(t)
  \/ \E t \in Tasks : flexsim_get_time(t)
  \/ \E t \in Tasks : flexsim_run(t)
  \/ \E t \in Tasks : flexsim_stop(t)
  \/ Tick
  \/ lifespan_shutdown

SpecChannel == Init /\ [][NextChannel]_vars

(***************************************************************************)
(* SpecOverride: a configuration built with any of the four environment    *)
(* variables set, an argument or none, and any disk.                       *)
(***************************************************************************)
OverrideArgs == {None, ArgToml}

OverrideInputs ==
  [config_path : {None},
   environ : [FLEXSIM_CONFIG_PATH : {None, EnvToml},
              FLEXSIM_INSTALL_PATH : {None, "E:/FlexSim/program"},
              FLEXSIM_PYTHON_VERSION : {None, "3.12"},
              FLEXSIM_LOG_LEVEL : {None, "DEBUG"}],
   disk : [TomlPaths -> FileStates]]

InitOverride ==
  /\ controller = 0 /\ locked = FALSE /\ waiters = <<>> /\ launches = 0
  /\ engine = FreshEngine /\ calls = <<>> /\ faults = 0
  /\ tasks = [t \in Tasks |-> IdleTask] /\ cur = 0
  /\ history = <<>> /\ received = 0
  /\ stopped = FALSE /\ files = DiskFiles /\ module_loaded = TRUE
  /\ fmt_in = 0 /\ fmt_out = ""
  /\ cfg_in \in OverrideInputs /\ cfg_out = NotLoaded
  /\ sent = <<>> /\ notified = 0 /\ client = NewClient
  /\ InitAux

NextOverride ==
  \/ \E config_path \in OverrideArgs : reload_config(config_path)
  \/ get_config_call

SpecOverride == InitOverride /\ [][NextOverride]_vars

(***************************************************************************)
(* SpecExport: export requests with the formats of the docstring in lower, *)
(* upper and mixed case, formats it does not name, and no format at all.   *)
(***************************************************************************)
ExportFormats ==
  { [text |-> "csv", command |-> "exporttable"],
    [text |-> "CSV", command |-> "exporttable"],
    [text |-> "Csv", command |-> "exporttable"],
    [text |-> "xlsx", command |-> "exportexcel"],
    [text |-> "XLSX", command |-> "exportexcel"],
    [text |-> "json", command |-> "exportjson"],
    [text |-> "JSON", command |-> "exportjson"],
    [text |-> "xml", command |-> "exportjson"],
    [text |-> "csv ", command |-> "exportjson"],
    [text |-> "", command |-> "exportjson"] }

ExportPool ==
  { Request("flexsim_export_results", [export_path |-> "C:/Results/output.csv", format |-> f.text]) :
      f \in ExportFormats }
  \cup { Request("flexsim_export_results", [export_path |-> "out.dat"]),
         Request("flexsim_export_results", [format |-> "csv"]) }

NextExport ==
  \/ \E r \in ExportPool : Dispatch(1, r, MaxExportRequests)
  \/ SessionAlone(1)
  \/ flexsim_export_results(1)

SpecExport == Init /\ [][NextExport]_vars

(***************************************************************************)
(* SpecPair: concurrent calls of tools that issue several engine calls     *)
(* each, with the opening of a model and a run in real-time mode among     *)
(* them; the launch succeeds, the engine answers every call, and its clock *)
(* moves with the calls only.                                              *)
(***************************************************************************)
\* The module is there and so is an install directory; the faults are spent.
InitPoll ==
  /\ InitServer
  /\ faults = MaxFaults
  /\ files = DiskFiles \cup {ListedPaths[2]}
  /\ module_loaded = TRUE

\* A run in real-time mode is the first request when there is one, and the
\* others come while its loop sleeps.
PairPool ==
  { Request("flexsim_step", [steps |-> 2]),
    Request("flexsim_set_node_value", [node_path |-> "Model/Queue1", value |-> [num |-> 5]]),
    Request("flexsim_run_to_time", [target_time |-> 15, fast_mode |-> TRUE]),
    Request("flexsim_open_model", [model_path |-> ModelFile]) }
  \cup (IF received = 0
        THEN {Request("flexsim_run_to_time", [target_time |-> 45])}
        ELSE {})

NextPair ==
  \/ \E t \in Tasks : \E r \in PairPool : Dispatch(t, r, MaxPairRequests)
  \/ \E t \in Tasks : Session(t)
  \/ \E t \in Tasks : flexsim_step(t)
  \/ \E t \in Tasks : flexsim_set_node_value(t)
  \/ \E t \in Tasks : RoundsLeft(t) /\ flexsim_run_to_time(t)
  \/ \E t \in Tasks : flexsim_open_model(t)

SpecPair == InitPoll /\ [][NextPair]_vars

(***************************************************************************)
(* SpecPoll: the first request is a run to a time in real-time mode or the *)
(* opening of a model, and the requests that come while it is under way    *)
(* stop or reset the engine or open a model. Every task that can run does  *)
(* run in the end, the sleep of the loop ends (for the rounds followed),   *)
(* and the clock of a running engine advances; nothing makes a client send *)
(* a request. The launch succeeds and the engine answers every call.       *)
(***************************************************************************)
PollPool ==
  IF received = 0
  THEN { Request("flexsim_run_to_time", [target_time |-> 45]),
         Request("flexsim_open_model", [model_path |-> ModelFile]) }
  ELSE { Request("flexsim_stop", NoArgs),
         Request("flexsim_reset", NoArgs),
         Request("flexsim_open_model", [model_path |-> ModelFile]) }

NextPoll ==
  \/ \E t \in Tasks : \E r \in PollPool : Dispatch(t, r, MaxPollRequests)
  \/ \E t \in Tasks : Session(t)
  \/ \E t \in Tasks : RoundsLeft(t) /\ flexsim_run_to_time(t)
  \/ \E t \in Tasks : flexsim_open_model(t)
  \/ \E t \in Tasks : flexsim_stop(t)
  \/ \E t \in Tasks : flexsim_reset(t)
  \/ Tick

SpecPoll ==
  /\ InitPoll /\ [][NextPoll]_vars
  /\ WF_vars(Tick)
  /\ \A t \in Tasks :
       /\ WF_vars(Session(t))
       /\ WF_vars(RoundsLeft(t) /\ flexsim_run_to_time(t))
       /\ WF_vars(flexsim_open_model(t))
       /\ WF_vars(flexsim_stop(t))
       /\ WF_vars(flexsim_reset(t))

(***************************************************************************)
(* Properties of the controller session.                                   *)
(***************************************************************************)
Answers == 1..Len(history)

\* The answers to the calls that launched the engine themselves.
Launchers == {i \in Answers : history[i].launch \in {"ok", "failed"}}

\* The answers to the request of answer i and to the requests that waited
\* for the lock while that request's launch held it: callers that made
\* their first call to get_controller concurrently.
Group(i) == {i} \cup {j \in Answers : history[j].behind = history[i].rid}

\* Every caller of the group of answer i has been answered.
GroupAnswered(i) == \A t \in Tasks : tasks[t].behind # history[i].rid

\* C1: under concurrent first calls to get_controller the launches never
\* overlap and at most one of them succeeds: every caller that gets a handle
\* gets the handle of that launch, which is the controller; once a launch
\* has succeeded no other is made; a failed launch is reported to the caller
\* that made it and to no other, every other answered caller having got the
\* handle; and the launches made are the failed ones, the successful one
\* and the one in flight.
C1_OneSessionForAllCallers ==
  LET started == {t \in Tasks : tasks[t].launch = "started"}
      okTasks == {t \in Tasks : tasks[t].launch = "ok"}
      okAnswers == {i \in Answers : history[i].launch = "ok"}
      failed == {i \in Answers : history[i].launch = "failed"}
  IN /\ \A i \in Answers : history[i].ctl # 0 => history[i].ctl = controller
     /\ \A t \in Tasks : tasks[t].ctl # 0 => tasks[t].ctl = controller
     /\ Cardinality(started) <= 1
     /\ Cardinality(okTasks) + Cardinality(okAnswers) <= 1
     /\ controller # 0 => started = {}
     /\ launches = Cardinality(failed) + Cardinality(okTasks)
                    + Cardinality(okAnswers) + Cardinality(started)
     /\ \A i \in failed : history[i].ctl = 0
     /\ \A i \in Answers :
          history[i].kind = "text" /\ history[i].launch = "none" => history[i].ctl # 0

\* Two callers were in get_controller together, the second waiting for the
\* lock during the first one's launch, and both got the handle of that one
\* launch.
C1_TwoCallersOneLaunch ==
  \E i, j \in Answers :
     /\ history[i].launch = "ok"
     /\ history[j].behind = history[i].rid
     /\ history[j].ctl = history[i].ctl /\ history[i].ctl # 0
     /\ launches = 1

\* C1 as stated: the callers that were in get_controller together see one
\* launch and all get its handle, or all get the same failure.
C1_OneLaunchOrAllFail ==
  \A i \in Launchers :
     Cardinality(Group(i)) >= 2 /\ GroupAnswered(i) =>
        \/ /\ Group(i) \cap Launchers = {i}
           /\ \A j \in Group(i) : history[j].ctl # 0 /\ history[j].ctl = history[i].ctl
        \/ \A j \in Group(i) : history[j].ctl = 0 /\ history[j].text = history[i].text

\* C2: once set the controller is never cleared or replaced and no launch
\* is made again, whatever step the server takes (a tool call, a tool call
\* that fails, the shutdown), and every call made after it is set uses it.
C2_ControllerSetOnce ==
  [][controller # 0 =>
       /\ controller' = controller
       /\ launches' = launches
       /\ \A t \in Tasks : tasks'[t].ctl \in {0, controller}]_vars

\* A tool call failed with an engine error, the next one used the same
\* handle, one launch having been made, and the server has shut down.
C2_SameHandleAfterError ==
  /\ Len(history) >= 2
  /\ history[1].ctl # 0 /\ history[1].text \in {format_error(m) : m \in EngineErrors}
  /\ history[2].ctl = history[1].ctl /\ history[2].launch = "none"
  /\ controller = history[1].ctl /\ launches = 1 /\ stopped


(***************************************************************************)
(* Properties of the tool calls.                                           *)
(***************************************************************************)
\* The calls the request rid made, in order, and those that went to the
\* engine behind the handle (all but the launch).
CallsOf(rid) == SelectSeq(calls, LAMBDA c : c.rid = rid)
EngineCalls(rid) == SelectSeq(calls, LAMBDA c : c.rid = rid /\ c.op # "launch")

IsStep(c) == c.op = "evaluate" /\ c.script = "step()"

\* The request of answer i got the handle and none of its calls raised.
Succeeded(i) ==
  /\ history[i].kind = "text" /\ history[i].ctl # 0
  /\ \A k \in 1..Len(calls) : calls[k].rid = history[i].rid => calls[k].ok

\* The request of answer i met an exception: in the launch, or in an engine call.
Failed(i) ==
  \/ history[i].launch = "failed"
  \/ \E k \in 1..Len(calls) : calls[k].rid = history[i].rid /\ ~calls[k].ok

ErrorTexts ==
  {format_error(m) : m \in EngineErrors \cup LaunchErrors
      \cup {"FlexSimPy module not available",
            "FlexSim not found at FlexSimDev/program. Update config.toml with correct path."}}

\* C3: every request that passed validation and has ended was answered
\* with a text, none with an exception that got through; a request that met
\* an exception in the launch or in an engine call was answered with the
\* text of that error; and every request received is answered or in flight.
C3_EveryCallAnswersText ==
  /\ \A i \in Answers :
        /\ InputModel(history[i].tool, history[i].args).ok =>
              history[i].kind = "text" /\ Len(history[i].text) > 0
        /\ Failed(i) =>
              /\ history[i].kind = "text"
              /\ history[i].text \in ErrorTexts \cup {"Script error: " \o e : e \in ErrorTexts}
  /\ received = Len(history) + Cardinality({t \in Tasks : tasks[t].pc # "idle"})

\* An evaluate call whose engine call raised was answered with a text.
C3_ScriptErrorAnswered ==
  \E i \in Answers :
     /\ history[i].tool = "flexsim_evaluate" /\ history[i].ctl # 0
     /\ \E k \in 1..Len(calls) : calls[k].rid = history[i].rid /\ ~calls[k].ok
     /\ history[i].kind = "text"
     /\ history[i].text = "Script error: Not found: Node not found"

\* A request with a bad or missing parameter: one its input model rejects,
\* or a set_node_value without a value.
BadRequest(i) ==
  \/ history[i].kind = "rejected"
  \/ history[i].tool = "flexsim_set_node_value" /\ ~Has(history[i].args, "value")

\* C4: a request with a bad or missing parameter is answered before the
\* session is created or acquired and before any engine call: it got no
\* handle, launched nothing and made no call.
C4_ValidationBeforeSession ==
  \A i \in Answers :
     BadRequest(i) =>
        /\ history[i].ctl = 0 /\ history[i].launch = "none"
        /\ CallsOf(history[i].rid) = <<>>

\* A set_node_value without a value launched the engine before it was
\* answered that no value was provided.
C4_LaunchBeforeValueCheck ==
  \E i \in Answers :
     /\ history[i].tool = "flexsim_set_node_value" /\ ~Has(history[i].args, "value")
     /\ history[i].text = "Error: No value provided"
     /\ history[i].launch = "ok" /\ launches = 1
     /\ \E k \in 1..Len(calls) : calls[k].rid = history[i].rid /\ calls[k].op = "launch"

RunToTimeAnswers == {i \in Answers : history[i].tool = "flexsim_run_to_time"
                                     /\ history[i].kind = "text"}

\* C5: a run-to-time request, in either mode, whose read of the clock
\* returned a time at or past the target is answered "Already at time"
\* with that time, and the read of the clock is the only engine call it
\* made; and only such a request is answered so.
C5_AlreadyAtTime ==
  \A i \in RunToTimeAnswers :
     LET cs == EngineCalls(history[i].rid)
         reached == /\ cs # <<>> /\ cs[1].op = "time" /\ cs[1].ok
                    /\ cs[1].at >= history[i].args.target_time
     IN /\ reached =>
             /\ history[i].text = "Already at time " \o format_time(cs[1].at)
             /\ Len(cs) = 1 /\ CallsOf(history[i].rid) = cs
        /\ StartsWith(history[i].text, "Already at time") => reached

\* A real-time request for a time the clock had passed was answered
\* "Already at time" after one read of the clock.
C5_RealTimeAlreadyThere ==
  \E i \in RunToTimeAnswers :
     /\ ~Has(history[i].args, "fast_mode")
     /\ StartsWith(history[i].text, "Already at time")
     /\ Len(EngineCalls(history[i].rid)) = 1
     /\ engine.time >= history[i].args.target_time

\* C5 as stated: a request answered "Already at time" issued no engine call.
C5_NoEngineCall ==
  \A i \in RunToTimeAnswers :
     StartsWith(history[i].text, "Already at time") => EngineCalls(history[i].rid) = <<>>

StepAnswers == {i \in Answers : history[i].tool = "flexsim_step"}

\* steps as the request gives it, 1 when it gives none.
StepsAsked(i) == IF Has(history[i].args, "steps") THEN history[i].args.steps ELSE 1

\* C6: a step request is rejected exactly when steps lies outside 1..1000,
\* and then makes no call; one inside the range that got the handle issued,
\* the engine raising nothing, exactly `steps` step commands, one after the
\* other between its two reads of the clock.
C6_ExactlyStepsCommands ==
  \A i \in StepAnswers :
     LET n == StepsAsked(i)
         cs == EngineCalls(history[i].rid)
     IN /\ history[i].kind = "rejected" <=> (n < 1 \/ n > 1000)
        /\ history[i].kind = "rejected" => CallsOf(history[i].rid) = <<>>
        /\ Succeeded(i) =>
             /\ Len(SelectSeq(cs, IsStep)) = n
             /\ Len(cs) = n + 2 /\ cs[1].op = "time" /\ cs[n + 2].op = "time"
             /\ \A k \in 2..(n + 1) : IsStep(cs[k])

\* A request for 1000 steps issued 1000 step commands.
C6_ThousandSteps ==
  \E i \in StepAnswers :
     /\ Has(history[i].args, "steps") /\ history[i].args.steps = 1000
     /\ Succeeded(i)
     /\ Len(SelectSeq(EngineCalls(history[i].rid), IsStep)) = 1000

OpenAnswers == {i \in Answers : history[i].tool = "flexsim_open_model"}

\* The paths on disk whose extension is .fsm or .fsx, in any case of letters.
ModelFilesOnDisk == {"models/line.FSM", "plant.fsx"}

\* The paths of the requests that name one of them from the working directory.
NamesOfModelFiles ==
  ModelFilesOnDisk \cup {"./plant.fsx", "plant.fsx/", "models/../plant.fsx"}

\* C7: an open_model request is rejected exactly when its path does not
\* name an existing file with the extension .fsm or .fsx, and a rejected
\* one touched no session: it got no handle, launched nothing and made no
\* call; the engine is only ever asked to open such a file.
C7_ModelPathValidated ==
  /\ \A i \in OpenAnswers :
        LET good == /\ Has(history[i].args, "model_path")
                    /\ history[i].args.model_path \in NamesOfModelFiles
        IN /\ history[i].kind = "rejected" <=> ~good
           /\ history[i].kind = "rejected" =>
                /\ history[i].ctl = 0 /\ history[i].launch = "none"
                /\ CallsOf(history[i].rid) = <<>>
  /\ \A k \in 1..Len(calls) :
        calls[k].op = "open" => calls[k].path \in {Cwd \o "/" \o f : f \in ModelFilesOnDisk}

\* A path with the right extension that names no file was rejected with no
\* launch and no call made.
C7_MissingFileRejected ==
  \E i \in OpenAnswers :
     /\ history[i].args = [model_path |-> "ghost.fsm"]
     /\ history[i].kind = "rejected"
     /\ launches = 0 /\ controller = 0 /\ calls = <<>>

EvaluateAnswers == {i \in Answers : history[i].tool = "flexsim_evaluate"}

\* C8: an evaluate request is rejected exactly when its script is missing,
\* empty or longer than 10000 characters, and then makes no call; a script of
\* 1 to 10000 characters, the handle obtained, goes to the engine unchanged
\* in exactly one evaluate call.
C8_ScriptForwardedOnce ==
  \A i \in EvaluateAnswers :
     LET given == Has(history[i].args, "script")
         cs == EngineCalls(history[i].rid)
     IN /\ history[i].kind = "rejected" <=>
             (~given \/ Len(history[i].args.script) = 0 \/ Len(history[i].args.script) > 10000)
        /\ history[i].kind = "rejected" => CallsOf(history[i].rid) = <<>>
        /\ history[i].kind = "text" /\ history[i].ctl # 0 =>
             /\ Len(cs) = 1 /\ cs[1].op = "evaluate"
             /\ cs[1].script = history[i].args.script

\* A script of 10001 characters was rejected and nothing reached the engine.
C8_LongScriptRejected ==
  \E i \in EvaluateAnswers :
     /\ Has(history[i].args, "script") /\ Len(history[i].args.script) = 10001
     /\ history[i].kind = "rejected"
     /\ calls = <<>> /\ launches = 0

\* Answers i..i+3 are to open_model of a valid model, reset,
\* run_to_time(3600, fast_mode=true) and get_time, each of which succeeded.
Scenario(i) ==
  /\ i + 3 <= Len(history)
  /\ history[i].tool = "flexsim_open_model" /\ Succeeded(i)
  /\ history[i + 1].tool = "flexsim_reset" /\ Succeeded(i + 1)
  /\ history[i + 2].tool = "flexsim_run_to_time" /\ Succeeded(i + 2)
  /\ history[i + 2].args = [target_time |-> 3600, fast_mode |-> TRUE]
  /\ history[i + 3].tool = "flexsim_get_time" /\ Succeeded(i + 3)

\* C9: after open_model of a valid model, reset and run_to_time(3600,
\* fast_mode=true), get_time answers exactly "Time: 1.00h (3600.00s)".
C9_OneHourScenario ==
  \A i \in Answers : Scenario(i) => history[i + 3].text = "Time: 1.00h (3600.00s)"

\* The four calls were made in that order and get_time answered one hour.
C9_ScenarioPlayed ==
  /\ Len(history) >= 4 /\ Scenario(1)
  /\ history[4].text = "Time: 1.00h (3600.00s)"
  /\ engine.time = 3600

\* The number of hundredths a text such as "2.08m" shows.
ShownHundredths(text) ==
  LET dot == LastIndexOf(text, ".", Len(text))
  IN 100 * ParseWhole(SubSeq(text, 1, dot - 1), 0)
     + ParseWhole(SubSeq(text, dot + 1, dot + 2), 0)

\* C10: format_time prints a time below 60 in seconds, one from 60 and
\* below 3600 in minutes, one from 3600 on in hours, with two decimals, the
\* number printed being the nearest hundredth of the value in that unit; 45
\* gives "45.00s", 125 "2.08m", 7200 "2.00h", 60 "1.00m" and 3600 "1.00h".
C10_UnitByThreshold ==
  fmt_out # "" =>
    LET n == Len(fmt_out)
        unit == SubSeq(fmt_out, n, n)
        h == ShownHundredths(fmt_out)
    IN /\ n >= 5 /\ SubSeq(fmt_out, n - 3, n - 3) = "."
       /\ IsDigit(SubSeq(fmt_out, n - 2, n - 2)) /\ IsDigit(SubSeq(fmt_out, n - 1, n - 1))
       /\ \A k \in 1..(n - 4) : IsDigit(SubSeq(fmt_out, k, k))
       /\ fmt_in < 60 => unit = "s" /\ h = 100 * fmt_in
       /\ fmt_in >= 60 /\ fmt_in < 3600 =>
             unit = "m" /\ 60 * h - 100 * fmt_in \in -30..30
       /\ fmt_in >= 3600 =>
             unit = "h" /\ 3600 * h - 100 * fmt_in \in -1800..1800
       /\ fmt_in = 45 => fmt_out = "45.00s"
       /\ fmt_in = 125 => fmt_out = "2.08m"
       /\ fmt_in = 7200 => fmt_out = "2.00h"
       /\ fmt_in = 60 => fmt_out = "1.00m"
       /\ fmt_in = 3600 => fmt_out = "1.00h"

\* The boundary of the hours was formatted.
C10_HourBoundary == fmt_in = 3600 /\ fmt_out = "1.00h"

(***************************************************************************)
(* Properties of the failure responses.                                    *)
(***************************************************************************)
\* The prefixes format_error puts before a message, one per category.
CategoryPrefixes ==
  {"Not found: ", "FlexScript syntax error: ", "License error: ",
   "Permission denied: ", "Error: "}

\* C11: the answer to every request that met an exception, in the launch
\* or in an engine call, whichever tool it called, is a text that starts
\* with the prefix of an error category.
C11_CategoryPrefixFirst ==
  \A i \in Answers :
     Failed(i) => \E p \in CategoryPrefixes : StartsWith(history[i].text, p)

\* An evaluate call that met an exception was answered with a text that
\* starts with "Script error: ", the category's prefix coming after it.
C11_ScriptErrorBeforeCategory ==
  \E i \in Answers :
     /\ history[i].tool = "flexsim_evaluate" /\ Failed(i)
     /\ StartsWith(history[i].text, "Script error: ")
     /\ \A p \in CategoryPrefixes : ~StartsWith(history[i].text, p)
     /\ \E p \in CategoryPrefixes :
          StartsWith(SubSeq(history[i].text, 15, Len(history[i].text)), p)

(***************************************************************************)
(* Properties of the launch.                                               *)
(***************************************************************************)
\* The calls of FlexSimPy.launch, in order.
LaunchCalls == SelectSeq(calls, LAMBDA c : c.op = "launch")

\* The primary path and the fallback list of the server's configuration.
PrimaryPath == flexsim_install_path(get_config)
FallbackList == flexsim_alternative_paths(get_config)

NotFoundText ==
  "Not found: FlexSim not found at " \o PrimaryPath
     \o ". Update config.toml with correct path."

\* C12: every launch is given a directory that exists: the primary path
\* when it exists, otherwise the first entry of the fallback list, in its
\* order, that exists.  When none exists (the module being there), launch
\* is never called, _controller stays None, and every request that went into
\* the launch is answered with the text of the not-found category, which
\* flexsim_evaluate puts after its "Script error: ".
C12_InstallDirResolution ==
  LET alt == FallbackList
  IN /\ \A k \in 1..Len(LaunchCalls) :
          LET dir == LaunchCalls[k].programDir
          IN /\ FileExists(dir)
             /\ FileExists(PrimaryPath) => dir = PrimaryPath
             /\ ~FileExists(PrimaryPath) =>
                   \E j \in 1..Len(alt) :
                      dir = alt[j] /\ \A h \in 1..(j - 1) : ~FileExists(alt[h])
     /\ (/\ module_loaded /\ ~FileExists(PrimaryPath)
         /\ \A j \in 1..Len(alt) : ~FileExists(alt[j])) =>
          /\ LaunchCalls = <<>> /\ controller = 0 /\ calls = <<>>
          /\ \A i \in Answers :
                history[i].kind = "text" =>
                   /\ history[i].launch = "failed" /\ history[i].ctl = 0
                   /\ history[i].text =
                        IF history[i].tool = "flexsim_evaluate"
                        THEN "Script error: " \o NotFoundText ELSE NotFoundText

\* The primary path missing and both fallbacks of the config.toml there,
\* the launch was given the first fallback.
C12_FirstFallbackUsed ==
  /\ PrimaryPath = DefaultInstallPath /\ ~FileExists(PrimaryPath)
  /\ FallbackList = ListedPaths
  /\ \A j \in 1..2 : FileExists(FallbackList[j])
  /\ Len(LaunchCalls) = 1
  /\ LaunchCalls[1].programDir = FallbackList[1]

\* C13: a get_controller call that finds no controller makes one launch
\* attempt, and a call makes no second one.  When the attempt fails the call
\* ends there with the error's text: no other attempt is made in it,
\* _controller is left None and the lock is released.  Every attempt is
\* made by a call that found _controller None, so the call after a failure
\* makes a fresh one.
C13_NoRetryInCall ==
  [][ /\ \A t \in Tasks :
           (tasks[t].pc = "launched" /\ tasks[t].fut.exc /\ tasks'[t] # tasks[t]) =>
              /\ tasks'[t].pc = "idle"
              /\ Len(history') = Len(history) + 1
              /\ history'[Len(history')].rid = tasks[t].rid
              /\ history'[Len(history')].launch = "failed"
              /\ history'[Len(history')].kind = "text"
              /\ launches' = launches
              /\ controller = 0 /\ controller' = 0
              /\ locked /\ ~locked'
      /\ launches' # launches =>
           /\ launches' = launches + 1 /\ controller = 0
           /\ \E t \in Tasks :
                /\ tasks[t].pc \in {"call", "waiting"} /\ tasks[t].launch = "none"
                /\ tasks'[t].pc = "launching" /\ tasks'[t].launch = "started"
    ]_vars

\* A call's launch failed, and the launch of the call after it succeeded.
C13_FreshAttemptSucceeded ==
  \E i, j \in Answers :
     /\ i < j
     /\ history[i].launch = "failed" /\ history[i].kind = "text"
     /\ history[j].launch = "ok" /\ controller = history[j].ctl /\ controller # 0
     /\ launches = 2 /\ ~locked

(***************************************************************************)
(* Properties of the real-time run.                                        *)
(***************************************************************************)
\* The real-time run-to-time requests, answered or in flight, whose first
\* read of the clock returned a time below the target.
RealTimeRuns ==
  LET asked == {[rid |-> history[i].rid, args |-> history[i].args, done |-> TRUE,
                 text |-> history[i].text, pc |-> "idle"] : i \in RunToTimeAnswers}
               \cup {[rid |-> tasks[t].rid, args |-> tasks[t].args, done |-> FALSE,
                      text |-> "", pc |-> tasks[t].pc] :
                       t \in {u \in Tasks : tasks[u].tool = "flexsim_run_to_time"}}
  IN {r \in asked :
        /\ ~RunToTimeInput(r.args).params.fast_mode
        /\ EngineCalls(r.rid) # <<>>
        /\ EngineCalls(r.rid)[1].ok
        /\ EngineCalls(r.rid)[1].at < r.args.target_time}

\* C14: the engine calls of a real-time run to a target above the clock
\* are, after the read of the clock: evaluate setstoptime(target), run, then
\* reads of the clock, the task sleeping after each that returned a time
\* below the target, then one stop, and the read of the end time.  The stop
\* comes right after the first read that returned a time at or past the
\* target, and a run that completed stopped exactly once.  A run under way
\* stands at the call its log has come to.
C14_RealTimeCallOrder ==
  \A r \in RealTimeRuns :
     LET cs == EngineCalls(r.rid)
         target == r.args.target_time
         stops == {k \in 1..Len(cs) : cs[k].op = "stop"}
         Below(k) == cs[k].op = "time" /\ cs[k].ok /\ cs[k].at < target
     IN /\ \A k \in 1..Len(cs) :
             /\ k = 1 => cs[k].op = "time"
             /\ k = 2 => cs[k] = Stamp([time |-> cs[k].at],
                                       Evaluate("setstoptime(" \o FloatStr(target) \o ")"),
                                       r.rid, cs[k].ok)
             /\ k = 3 => cs[k].op = "run"
             /\ k >= 4 => cs[k].op \in {"time", "stop"}
             /\ ~cs[k].ok => k = Len(cs)
             /\ cs[k].op = "stop" =>
                   /\ k >= 5
                   /\ cs[k - 1].op = "time" /\ cs[k - 1].ok /\ cs[k - 1].at >= target
                   /\ \A j \in 4..(k - 2) : Below(j)
                   /\ cs[k].ok => IF k = Len(cs) THEN r.pc = "end"
                                  ELSE k + 1 = Len(cs) /\ cs[k + 1].op = "time"
             /\ (k >= 5 /\ cs[k].op = "time") => Below(k - 1) \/ cs[k - 1].op = "stop"
        /\ Cardinality(stops) <= 1
        /\ (r.done /\ StartsWith(r.text, CheckMark \o " Simulation complete (real-time)")) =>
              Cardinality(stops) = 1 /\ \A k \in 1..Len(cs) : cs[k].ok
        /\ r.pc = "sleep" => Len(cs) >= 4 /\ Below(Len(cs))
        /\ (~r.done /\ Len(cs) >= 4 /\ Below(Len(cs))) => r.pc = "sleep"
        /\ ~r.done =>
              /\ r.pc = "setstoptime" <=> Len(cs) = 1
              /\ r.pc = "run" <=> Len(cs) = 2
              /\ r.pc = "poll" <=> Len(cs) = 3
              /\ r.pc = "stop" <=> (Len(cs) >= 4 /\ cs[Len(cs)].op = "time"
                                     /\ cs[Len(cs)].at >= target)
              /\ r.pc = "end" <=> cs[Len(cs)].op = "stop"

\* A real-time run completed after three reads of the clock, the last one
\* at the target, and one stop.
C14_StoppedAfterPolls ==
  \E r \in RealTimeRuns :
     LET cs == EngineCalls(r.rid)
     IN /\ r.done /\ StartsWith(r.text, CheckMark \o " Simulation complete (real-time)")
        /\ Len(cs) = 8
        /\ cs[4].at < r.args.target_time /\ cs[5].at < r.args.target_time
        /\ cs[6].op = "time" /\ cs[6].at = r.args.target_time
        /\ cs[7].op = "stop" /\ cs[8].op = "time"

(***************************************************************************)
(* Properties of the event loop.                                           *)
(***************************************************************************)
\* The server takes a request in, or goes on with one it has taken in.
LoopStep ==
  \/ \E t \in Tasks : \E r \in LoopPool : Dispatch(t, r, MaxLoopRequests)
  \/ \E t \in Tasks : get_controller(t) \/ get_controller_wakeup(t)

\* C15: while the runToTime call of a fast-mode run is executing, the event
\* loop is free: the server can take in another request when the client
\* has one to send, and can go on with one that waits to start.
C15_LoopFreeDuringRunToTime ==
  \A t \in Tasks :
     tasks[t].pc = "blocking" =>
        /\ cur = 0
        /\ (received < MaxLoopRequests \/ \E u \in Tasks : tasks[u].pc \in {"call", "waiting"})
              => ENABLED LoopStep

\* A fast-mode run is in its runToTime call, on the event loop, while
\* another request, first in line for the free lock, is not gone on with.
C15_LoopHeldDuringRunToTime ==
  \E t, u \in Tasks :
     /\ tasks[t].pc = "blocking" /\ cur = t
     /\ tasks[u].pc = "waiting" /\ ~locked /\ Head(waiters) = u
     /\ ~ENABLED LoopStep

(***************************************************************************)
(* Properties of the mode of a run.                                        *)
(***************************************************************************)
\* The answered run-to-time requests that left fast_mode out, ran (the clock
\* was below the target) and met no exception.
OmittedModeRuns ==
  {i \in RunToTimeAnswers :
     /\ ~Has(history[i].args, "fast_mode")
     /\ Succeeded(i)
     /\ ~StartsWith(history[i].text, "Already at time")}

\* C16: a run-to-time request that leaves fast_mode out runs in fast mode:
\* after the read of the clock its engine calls are one runToTime(target)
\* and the read of the end time, with no setstoptime, run, poll or stop,
\* and it is answered as a fast run.
C16_OmittedFastModeRunsFast ==
  \A i \in OmittedModeRuns :
     LET cs == EngineCalls(history[i].rid)
     IN /\ Len(cs) = 3
        /\ cs[1].op = "time"
        /\ cs[2].op = "runToTime" /\ cs[2].time = history[i].args.target_time
        /\ cs[3].op = "time"
        /\ StartsWith(history[i].text, CheckMark \o " Simulation complete (fast)")

\* A run-to-time request that left fast_mode out was run in real time: it
\* set the stop time, ran, polled the clock and stopped, with no runToTime.
C16_OmittedFastModeRunsRealTime ==
  \E i \in OmittedModeRuns :
     LET cs == EngineCalls(history[i].rid)
     IN /\ Len(cs) >= 6
        /\ cs[2].op = "evaluate" /\ StartsWith(cs[2].script, "setstoptime(")
        /\ cs[3].op = "run"
        /\ cs[Len(cs) - 1].op = "stop"
        /\ \A k \in 1..Len(cs) : cs[k].op # "runToTime"
        /\ StartsWith(history[i].text, CheckMark \o " Simulation complete (real-time)")

(***************************************************************************)
(* Properties of the configuration.                                        *)
(***************************************************************************)
\* The sources of a configuration file in the order of their precedence:
\* the argument, FLEXSIM_CONFIG_PATH, the working directory, the project
\* root; those that are there: named, and the file existing; and those
\* that are available: there, and the file loading.
ConfigSources ==
  <<cfg_in.config_path, cfg_in.environ.FLEXSIM_CONFIG_PATH, cwd_config, project_root>>

SourceThere(k) == Truthy(ConfigSources[k]) /\ PathExists(ConfigSources[k])

SourceAvailable(k) == SourceThere(k) /\ cfg_in.disk[ConfigSources[k]] = "toml"

\* What the environment's FLEXSIM_INSTALL_PATH, when set, leaves of the
\* configuration base.
WithInstallPath(base) ==
  IF Truthy(cfg_in.environ.FLEXSIM_INSTALL_PATH)
  THEN [sec \in DOMAIN base \cup {"flexsim"} |->
          IF sec # "flexsim" THEN base[sec]
          ELSE [key \in (IF sec \in DOMAIN base THEN DOMAIN base[sec] ELSE {})
                         \cup {"install_path"} |->
                  IF key = "install_path" THEN cfg_in.environ.FLEXSIM_INSTALL_PATH
                  ELSE base[sec][key]]]
  ELSE base

\* C17 as stated: the configuration is that of the first source, in the
\* order of precedence, that is available, and the defaults when none is: a
\* source is used only when every source before it is absent.
C17_HighestAvailableSource ==
  cfg_out.loaded =>
     /\ \A k \in 1..4 :
           (SourceAvailable(k) /\ \A h \in 1..(k - 1) : ~SourceAvailable(h)) =>
              cfg_out.config = WithInstallPath(TomlLoad(ConfigSources[k]))
     /\ (\A k \in 1..4 : ~SourceAvailable(k)) =>
           cfg_out.config = WithInstallPath(_set_defaults)

\* C17 amended: with a path argument, the file is the argument's when it
\* exists and none otherwise, whatever the other sources hold; with no
\* argument it is the first that exists of FLEXSIM_CONFIG_PATH's (when
\* set), the working directory's and the project root's config.toml.  The
\* configuration is what that file holds, and the defaults when there is no
\* file or the file does not load, with the install path of
\* FLEXSIM_INSTALL_PATH, when set, in place of its own.
C17_ConfigSourceSelection ==
  cfg_out.loaded =>
     LET found == cfg_out.config_path
         given == Truthy(cfg_in.config_path)
     IN /\ given => found = (IF SourceThere(1) THEN cfg_in.config_path ELSE None)
        /\ ~given =>
              /\ \A k \in 2..4 :
                    (SourceThere(k) /\ \A h \in 2..(k - 1) : ~SourceThere(h)) =>
                       found = ConfigSources[k]
              /\ (\A k \in 2..4 : ~SourceThere(k)) => found = None
        /\ cfg_out.config =
              WithInstallPath(IF found # None /\ cfg_in.disk[found] = "toml"
                              THEN TomlLoad(found) ELSE _set_defaults)

\* The argument named a file that is missing, the file of
\* FLEXSIM_CONFIG_PATH was there, and the configuration is the defaults.
C17_MissingArgumentGivesDefaults ==
  /\ cfg_out.loaded
  /\ cfg_in.config_path = ArgToml /\ ~SourceThere(1)
  /\ SourceThere(2) /\ cfg_in.disk[EnvToml] = "toml"
  /\ cfg_out.config_path = None
  /\ cfg_out.config = _set_defaults

(***************************************************************************)
(* Properties of the stdio channel.                                        *)
(***************************************************************************)
\* Each response answers a request that was sent, echoing its id, no
\* request is answered twice, a notification, once read, has added no line,
\* and every request of the client returned the response that echoes its
\* id: every send_message of the test client returned the response to the
\* request it sent.
EveryResponseToItsRequest ==
  /\ Len(history) <= Len(RequestsSent)
  /\ received + notified <= Len(sent)
  /\ \A k \in Answers :
        /\ history[k].rid \in 1..Len(RequestsSent)
        /\ history[k].tool = (IF RequestsSent[history[k].rid].method = "tools/call"
                              THEN RequestsSent[history[k].rid].tool
                              ELSE RequestsSent[history[k].rid].method)
        /\ history[k].args = RequestsSent[history[k].rid].args
        /\ \A j \in Answers : history[j].rid = history[k].rid => j = k
  /\ \A j \in 1..Len(client.replies) :
        LET reply == client.replies[j]
        IN /\ reply.line = j
           /\ RequestsSent[history[reply.line].rid].id = reply.id

\* The k-th line of responses answers the k-th message sent that carries
\* an id, and at most one request is being answered at a time.
InRequestOrder ==
  /\ received - Len(history) \in {0, 1}
  /\ \A k \in Answers : history[k].rid = k

\* C18 as claimed: the requests are answered in the order received, one at
\* a time, whatever the client: the k-th line of responses answers the k-th
\* message sent that carries an id and echoes that id, a notification has
\* added no line, and every send_message returned the response to the
\* request it sent.
C18_ResponsesInRequestOrder ==
  EveryResponseToItsRequest /\ InRequestOrder

\* C18: each response echoes the id of the request it answers and a
\* notification adds no line; and as long as no request was written while
\* another was unanswered, as with the test client, which reads one line
\* after each request it sends, the requests are answered in the order
\* received, one at a time: the k-th line answers the k-th request, and
\* every send_message returned the response to the request it sent.
C18_InOrderWithOneOutstanding ==
  EveryResponseToItsRequest /\ (~client.overlap => InRequestOrder)

\* The client sent initialize, the notification and two more requests, the
\* last one a tool call; the server read all four messages and the client
\* read three lines, the third the text of the tool.
C18_ThreeRepliesOneNotification ==
  /\ ~client.overlap /\ client.pc = "ready"
  /\ Len(sent) = 4 /\ notified = 1 /\ received = 3
  /\ Len(client.replies) = 3 /\ Len(history) = 3
  /\ sent[2].id = 0
  /\ history[3].kind = "text" /\ client.replies[3].id = 3

(***************************************************************************)
(* Properties of the session's lifetime.                                   *)
(***************************************************************************)
\* The requests that passed validation: answered with a text, or in flight.
ValidatedSoFar ==
  Cardinality({i \in Answers : history[i].kind = "text"})
  + Cardinality({t \in Tasks : tasks[t].pc # "idle"})

\* C19: the server starts with no controller and no launch made; as long as
\* no request has passed validation there is no launch, no controller and
\* no engine call; a launch is started only by a tool call that passed
\* validation, in get_controller, and a rejected request starts none; and
\* the shutdown leaves the controller, the engine and its calls as they are.
C19_LazySession ==
  [][ /\ ValidatedSoFar = 0 => launches = 0 /\ controller = 0 /\ calls = <<>>
      /\ launches' # launches =>
           \E t \in Tasks :
              /\ tasks[t].pc = "call" /\ InputModel(tasks[t].tool, tasks[t].args).ok
              /\ tasks'[t].pc = "launching"
      /\ Len(history') > Len(history) /\ history'[Len(history')].kind = "rejected" =>
           UNCHANGED <<launches, controller, engine, calls>>
      /\ stopped' # stopped =>
           /\ stopped' /\ UNCHANGED <<controller, launches, engine, calls>>
    ]_vars

\* The first request was rejected and launched nothing, the second launched
\* the engine, and after the shutdown the controller is still there.
C19_LaunchedByFirstValidCall ==
  /\ Len(history) = 2
  /\ history[1].kind = "rejected" /\ history[1].launch = "none"
  /\ history[2].launch = "ok"
  /\ LaunchCalls # <<>> /\ LaunchCalls[1].rid = history[2].rid
  /\ \A k \in 1..Len(calls) : calls[k].rid = history[2].rid
  /\ stopped /\ controller # 0 /\ launches = 1

(***************************************************************************)
(* Properties of the state-changing tools.                                 *)
(***************************************************************************)
StateChangingTools ==
  {"flexsim_open_model", "flexsim_reset", "flexsim_run", "flexsim_stop",
   "flexsim_save_model", "flexsim_new_model", "flexsim_set_node_value"}

\* The answers to the state-changing requests that met no exception.
StateChanges == {i \in Answers : history[i].tool \in StateChangingTools /\ Succeeded(i)}

\* The call reads a value of the engine and changes nothing.
IsReadBack(c) ==
  \/ c.op = "time"
  \/ c.op = "evaluate" /\ StartsWith(c.script, "getvalue(")

\* C20 as stated: every state-changing operation issues its state-changing
\* engine call and then reads a value back from the engine.
C20_CallThenReadBack ==
  \A i \in StateChanges :
     LET cs == EngineCalls(history[i].rid)
     IN /\ Len(cs) = 2
        /\ ~IsReadBack(cs[1])
        /\ IsReadBack(cs[2])

\* C20 amended: open, stop and set-value issue their state-changing call
\* and then read a value back (the time, or the node's value) that the text
\* gives; reset, run, save and new issue their state-changing call only and
\* answer with a fixed text.
C20_ReadBackByOpenStopSetValue ==
  \A i \in StateChanges :
     LET cs == EngineCalls(history[i].rid)
         tool == history[i].tool
         p == InputModel(tool, history[i].args).params
     IN /\ tool = "flexsim_open_model" =>
              /\ Len(cs) = 2 /\ cs[1].op = "open" /\ cs[1].path = p.model_path
              /\ cs[2].op = "time"
              /\ history[i].text = CheckMark \o " Opened: " \o PathStem(p.model_path)
                                   \o "\nTime: " \o format_time(cs[2].at)
        /\ tool = "flexsim_stop" =>
              /\ Len(cs) = 2 /\ cs[1].op = "stop" /\ cs[2].op = "time"
              /\ history[i].text = CheckMark \o " Stopped at " \o format_time(cs[2].at)
        /\ tool = "flexsim_set_node_value" =>
              /\ Len(cs) = 2
              /\ cs[1].op = "evaluate" /\ StartsWith(cs[1].script, "setvalue(")
              /\ cs[2].op = "evaluate"
              /\ cs[2].script = "getvalue(node(\"" \o p.node_path \o "\"))"
              /\ StartsWith(history[i].text, CheckMark \o " " \o p.node_path \o " = ")
        /\ tool = "flexsim_reset" =>
              /\ Len(cs) = 1 /\ cs[1].op = "reset"
              /\ history[i].text = CheckMark \o " Simulation reset to time 0"
        /\ tool = "flexsim_run" =>
              /\ Len(cs) = 1 /\ cs[1].op = "run"
              /\ history[i].text = CheckMark \o " Simulation running (use flexsim_stop to pause)"
        /\ tool = "flexsim_save_model" =>
              /\ Len(cs) = 1 /\ cs[1].op = "evaluate" /\ cs[1].script = "savemodel()"
              /\ history[i].text = CheckMark \o " Model saved to current location"
        /\ tool = "flexsim_new_model" =>
              /\ Len(cs) = 1 /\ cs[1].op = "evaluate" /\ cs[1].script = "newmodel()"
              /\ history[i].text = CheckMark \o " New blank model created"

\* The engine was run and then stopped: the run was answered after its one
\* call, the stop after reading back the time.
C20_RunThenStopReadBack ==
  /\ Len(history) = 2 /\ StateChanges = {1, 2}
  /\ history[1].tool = "flexsim_run" /\ Len(EngineCalls(history[1].rid)) = 1
  /\ history[2].tool = "flexsim_stop" /\ Len(EngineCalls(history[2].rid)) = 2
  /\ EngineCalls(history[2].rid)[2].op = "time"
  /\ history[2].text = CheckMark \o " Stopped at " \o format_time(engine.time)

(***************************************************************************)
(* The build automation command line (utility/build_automation.py).  A run *)
(* is the flags on the command line and what it finds on the machine:     *)
(* whether FlexSimPy can be imported, whether the build output            *)
(* FlexSimPy.pyd exists, whether site-packages already has a FlexSimPy.pyd,*)
(* and whether copying the FlexSim headers, finding MSBuild and the        *)
(* solution, compiling and copying into site-packages would succeed.       *)
(***************************************************************************)
BuildFlags == {"--status", "--build", "--install", "--force"}

BuildRuns ==
  [pc : {"start"}, argv : SUBSET BuildFlags,
   importable : BOOLEAN, pyd : BOOLEAN, target : BOOLEAN,
   sync_ok : BOOLEAN, msbuild_ok : BOOLEAN, compile_ok : BOOLEAN, copy_ok : BOOLEAN,
   synced : {0}, msbuild_runs : {0}, copies : {0},
   out : {<<>>}, exit_code : {None}]

\* argparse's action="store_true" with a default: the flag on the command
\* line gives True, its absence gives the default.
store_true(run, flag, default) == IF flag \in run.argv THEN TRUE ELSE default

parse_args(run) ==
  [status |-> store_true(run, "--status", FALSE),
   build |-> store_true(run, "--build", TRUE),
   install |-> store_true(run, "--install", TRUE),
   force |-> store_true(run, "--force", TRUE)]

check_flexsimpy_available(run) == run.importable

check_build_output_exists(run) == run.pyd

\* Copies the build output into site-packages unless one is there already.
install_pyd_to_python_path(run) ==
  IF run.target THEN [run |-> run, ok |-> TRUE]
  ELSE IF run.copy_ok
       THEN [run |-> [run EXCEPT !.target = TRUE, !.copies = @ + 1], ok |-> TRUE]
       ELSE [run |-> run, ok |-> FALSE]

\* Copies the FlexSim headers and libraries, then runs MSBuild.
build_flexsimpy(run, force) ==
  IF ~force /\ check_build_output_exists(run)
  THEN [run |-> run, ok |-> TRUE, msg |-> "FlexSimPy already built"]
  ELSE IF ~run.sync_ok
  THEN [run |-> run, ok |-> FALSE, msg |-> "sync_flexsim_content failed"]
  ELSE LET synced == [run EXCEPT !.synced = @ + 1] IN
       IF ~run.msbuild_ok
       THEN [run |-> synced, ok |-> FALSE, msg |-> "MSBuild or FlexSimPy.sln not found"]
       ELSE LET ran == [synced EXCEPT !.msbuild_runs = @ + 1,
                                      !.pyd = IF run.compile_ok THEN TRUE ELSE @]
            IN IF ~run.compile_ok
               THEN [run |-> ran, ok |-> FALSE, msg |-> "FlexSimPy build failed"]
               ELSE [run |-> ran, ok |-> TRUE, msg |-> "FlexSimPy built successfully"]

\* The builder of the command line is made with auto_build = True.
auto_build == TRUE

ensure_flexsimpy_available(run, mode) ==
  IF check_flexsimpy_available(run)
  THEN [run |-> run, ok |-> TRUE, msg |-> "FlexSimPy module available"]
  ELSE IF mode = "check"
  THEN [run |-> run, ok |-> FALSE, msg |-> "FlexSimPy not available and mode is 'check'"]
  ELSE LET built == IF check_build_output_exists(run)
                    THEN [run |-> run, ok |-> TRUE, msg |-> ""]
                    ELSE IF ~auto_build
                    THEN [run |-> run, ok |-> FALSE,
                          msg |-> "FlexSimPy not built and auto_build is disabled"]
                    ELSE LET b == build_flexsimpy(run, FALSE) IN
                         IF ~b.ok
                         THEN [b EXCEPT !.msg = "Failed to build FlexSimPy: " \o @]
                         ELSE IF ~check_build_output_exists(b.run)
                         THEN [b EXCEPT !.ok = FALSE,
                                        !.msg = "Build succeeded but output not found"]
                         ELSE b
       IN IF ~built.ok THEN built
          ELSE IF mode = "install"
          THEN LET i == install_pyd_to_python_path(built.run) IN
               IF i.ok
               THEN [run |-> i.run, ok |-> TRUE, msg |-> "FlexSimPy installed to site-packages"]
               ELSE [run |-> i.run, ok |-> FALSE,
                     msg |-> "FlexSimPy built but failed to install to site-packages"]
          ELSE [run |-> built.run, ok |-> TRUE, msg |-> "FlexSimPy available"]

\* What a step of the command line leaves: the run with the message
\* printed, the exit code and whether an action was run.
Printed(r, exit_code, actions_run) ==
  [run |-> [r.run EXCEPT !.out = Append(@, r.msg)],
   exit_code |-> IF r.ok THEN exit_code ELSE 1,
   actions_run |-> actions_run]

\* The command line from parse_args to sys.exit.
build_main(run) ==
  LET args == parse_args(run)
      start == [run |-> run, exit_code |-> 0, actions_run |-> FALSE]
      installed == IF args.install
                   THEN Printed(ensure_flexsimpy_available(start.run, "install"),
                                start.exit_code, TRUE)
                   ELSE start
      built == IF args.build /\ ~args.install
               THEN Printed(build_flexsimpy(installed.run, args.force),
                            installed.exit_code, TRUE)
               ELSE installed
      shown == IF args.status \/ ~built.actions_run
               THEN [built.run EXCEPT !.out = Append(@, "=== FlexSimPy Build Status ===")]
               ELSE built.run
  IN [shown EXCEPT !.pc = "exited", !.exit_code = built.exit_code]

\* FlexSimPyBuilder.__init__ keeps get_config(): the first builder of the
\* process (made before any flag is looked at) loads the configuration.
FlexSimPyBuilder ==
  /\ cfg_out' = get_config
  /\ cfg_in' = IF cfg_out.loaded THEN cfg_in ELSE Built(None)

RunBuild ==
  /\ build.pc = "start"
  /\ FlexSimPyBuilder
  /\ build' = build_main(build)
  /\ UNCHANGED <<app, err_in, err_out, fmt_in, fmt_out, cliVars, sessVars, engVars,
                 taskVars, envVars>>

\* The command line is run where config.toml is found, or where there is
\* none and the defaults are taken.
InitBuild ==
  /\ controller = 0 /\ locked = FALSE /\ waiters = <<>> /\ launches = 0
  /\ engine = FreshEngine /\ calls = <<>> /\ faults = 0
  /\ tasks = [t \in Tasks |-> IdleTask] /\ cur = 0
  /\ history = <<>> /\ received = 0
  /\ stopped = FALSE /\ files = DiskFiles /\ module_loaded = TRUE
  /\ fmt_in = 0 /\ fmt_out = ""
  /\ cfg_in \in {ServerConfigInput, NoConfigInput} /\ cfg_out = NotLoaded
  /\ sent = <<>> /\ notified = 0 /\ client = NewClient
  /\ err_in = <<>> /\ err_out = ""
  /\ app = [pc |-> "none"]
  /\ build \in BuildRuns

SpecBuild == InitBuild /\ [][RunBuild]_vars

(***************************************************************************)
(* The Gradio client (client/app.py): FlexSimMCPClient and its connect,    *)
(* disconnect, call_tool and process_with_llm.  The handlers of the page   *)
(* are coroutines of one event loop on one client: a coroutine runs from   *)
(* one await to the next without interruption, and while it waits the      *)
(* others run.  A session is named by the number of the connect that made  *)
(* it, 0 is None.  What the server, the MCP library and Gemini do is an    *)
(* input: whether an await raises, the tools the server lists, what a tool *)
(* call returns, what the model answers.                                   *)
(***************************************************************************)
AppCheck == "(U+201A)(U+00FA)(U+00EC)"
AppCross == "(U+201A)(U+00FA)(U+00F3)"
AppBullet == "(U+201A)(U+00C4)(U+00A2)"
AppWarning == "(U+201A)(U+00F6)(U+2020)(U+00D4)(U+220F)(U+00E8)"
AppWrench == "(U+F8FF)(U+00FC)(U+00EE)(U+00DF)"
AppClipboard == "(U+F8FF)(U+00FC)(U+00EC)(U+00E3)"
AppCrossMark == "(U+201A)(U+00F9)(U+00E5)"
Backtick == "(U+0060)"

AppTasks == 1..MaxAppTasks

\* A handler that is not running.
NoCoroutine == [op |-> "none", pc |-> "none", left |-> 0, out |-> <<>>]

NewApp(gemini) ==
  [pc |-> "ready", session |-> 0, connected |-> FALSE, tools |-> <<>>,
   _gemini_client |-> gemini,
   run |-> [k \in AppTasks |-> NoCoroutine],
   op |-> "__init__", ops |-> 0, overlap |-> FALSE,
   last |-> "__init__", done |-> 0, result |-> "",
   sessions |-> 0, requests |-> 0, exits |-> 0]

ListedTool(name) ==
  [name |-> name, description |-> "Execute " \o name, input_schema |-> "{}"]

ServerTools ==
  {<<>>, <<ListedTool("flexsim_open_model"), ListedTool("flexsim_get_time")>>}

\* What the content of a tool result holds.
ToolReplies == {<<"Current simulation time:", "12.50">>}

Chats == {<<[role |-> "user", content |-> "hello"]>>}

\* "\n".join(lines)
RECURSIVE JoinLines(_, _)
JoinLines(lines, i) ==
  IF i > Len(lines) THEN ""
  ELSE lines[i] \o (IF i < Len(lines) THEN "\n" ELSE "") \o JoinLines(lines, i + 1)

RECURSIVE BulletLines(_, _)
BulletLines(tools, i) ==
  IF i > Len(tools) THEN <<>>
  ELSE <<"  " \o AppBullet \o " " \o tools[i].name>> \o BulletLines(tools, i + 1)

InFlight(a) == {k \in AppTasks : a.run[k] # NoCoroutine}

\* Handler k can take a new operation: the free handler of the lowest
\* number does.
CanBegin(k) ==
  /\ app.pc = "ready" /\ app.ops < MaxAppOps
  /\ app.run[k] = NoCoroutine
  /\ \A j \in 1..(k - 1) : app.run[j] # NoCoroutine

Suspended(k, op, pc) == app.pc = "ready" /\ app.run[k].op = op /\ app.run[k].pc = pc

\* The operation is called: it overlaps whatever is in flight.
Begin(a, op) ==
  [a EXCEPT !.op = op, !.ops = @ + 1, !.overlap = @ \/ InFlight(a) # {}]

Await(a, k, op, pc) == [a EXCEPT !.run[k] = [NoCoroutine EXCEPT !.op = op, !.pc = pc]]

Returns(a, k, op, result) ==
  [a EXCEPT !.run[k] = NoCoroutine, !.last = op, !.done = @ + 1, !.result = result]

AppUnchanged ==
  UNCHANGED <<build, err_in, err_out, pureVars, cliVars, sessVars, engVars, taskVars, envVars>>

\* The except branch of connect
connect_failed(a, k, e) ==
  Returns([a EXCEPT !.connected = FALSE], k, "connect",
         AppCross \o " Connection failed: " \o e)

app_connect(k) ==
  /\ \/ /\ CanBegin(k)
        /\ app' = Await(Begin(app, "connect"), k, "connect", "stdio_client")
     \/ /\ Suspended(k, "connect", "stdio_client")
        /\ \/ app' = connect_failed(app, k, "stdio_client")
           \/ app' = Await(app, k, "connect", "ClientSession")
     \/ /\ Suspended(k, "connect", "ClientSession")
        /\ \/ app' = connect_failed(app, k, "ClientSession")
           \/ app' = Await([app EXCEPT !.sessions = @ + 1, !.session = app.sessions + 1],
                           k, "connect", "initialize")
     \/ \* initialize has returned: self.session, as it is now, is asked
        \* for its tools
        /\ Suspended(k, "connect", "initialize")
        /\ \/ app' = connect_failed(app, k, "initialize")
           \/ app' = IF app.session = 0
                     THEN connect_failed(app, k,
                             "'NoneType' object has no attribute 'list_tools'")
                     ELSE Await(app, k, "connect", "list_tools")
     \/ /\ Suspended(k, "connect", "list_tools")
        /\ \/ app' = connect_failed(app, k, "list_tools")
           \/ \E listed \in ServerTools :
                 app' = Returns([app EXCEPT !.tools = listed, !.connected = TRUE],
                                k, "connect",
                                AppCheck \o " Connected to FlexSim MCP Server\n\nAvailable tools ("
                                   \o ToString(Len(listed)) \o "):\n"
                                   \o JoinLines(BulletLines(listed, 1), 1))
  /\ AppUnchanged

\* The assignments disconnect ends with
Cleared(a) == [a EXCEPT !.session = 0, !.connected = FALSE, !.tools = <<>>]

\* Closing the session may raise: the exception is swallowed, so either
\* way the operation goes on to the same assignments.
app_disconnect(k) ==
  /\ \/ /\ CanBegin(k)
        /\ app' = IF app.session # 0
                  THEN Await([Begin(app, "disconnect") EXCEPT !.exits = @ + 1],
                             k, "disconnect", "__aexit__")
                  ELSE Returns(Cleared(Begin(app, "disconnect")), k, "disconnect",
                               "Disconnected")
     \/ /\ Suspended(k, "disconnect", "__aexit__")
        /\ app' = Returns(Cleared(app), k, "disconnect", "Disconnected")
  /\ AppUnchanged

\* `not self.connected or not self.session`
NotConnected_both(a) == ~a.connected /\ a.session = 0

NotConnected(a) == ~a.connected \/ a.session = 0

app_call_tool(k) ==
  /\ \/ /\ CanBegin(k)
        /\ app' = IF NotConnected(app)
                  THEN Returns(Begin(app, "call_tool"), k, "call_tool",
                               "Error: Not connected to MCP server")
                  ELSE Await([Begin(app, "call_tool") EXCEPT !.requests = @ + 1],
                             k, "call_tool", "session.call_tool")
     \/ /\ Suspended(k, "call_tool", "session.call_tool")
        /\ \/ app' = Returns(app, k, "call_tool", "Tool error: closed")
           \/ \E reply \in ToolReplies :
                 app' = Returns(app, k, "call_tool", JoinLines(reply, 1))
  /\ AppUnchanged

Assistant(content) == [role |-> "assistant", content |-> content]

Calling(tool_name) ==
  Assistant(AppWrench \o " **Calling:** " \o Backtick \o tool_name \o Backtick \o "\n"
            \o Fence \o "json\n{}\n" \o Fence)

Result(result_content) ==
  Assistant(AppClipboard \o " **Result:**\n" \o Fence \o "\n" \o result_content \o "\n"
            \o Fence)

LlmError(e) == Assistant(AppCrossMark \o " Error: " \o e)

\* One function call of the response: the message that shows it, then the
\* tool call on self.session as it is now.
llm_call(a, k, out, left) ==
  LET shown == Append(out, Calling("flexsim_get_time")) IN
  IF a.session = 0
  THEN Returns(a, k, "process_with_llm",
               Append(shown, LlmError("'NoneType' object has no attribute 'call_tool'")))
  ELSE [a EXCEPT !.requests = @ + 1,
                 !.run[k] = [op |-> "process_with_llm", pc |-> "session.call_tool",
                             left |-> left, out |-> shown]]

\* What generate_content gives: it raises, or answers with a text, with
\* nothing or with function calls.
LlmResponses ==
  {[kind |-> kind, function_calls |-> 0] : kind \in {"raise", "text", "empty"}}
    \cup {[kind |-> "function_calls", function_calls |-> n] : n \in 1..MaxLlmCalls}

app_process_with_llm(k) ==
  /\ \/ /\ CanBegin(k)
        /\ \E chat \in Chats, response \in LlmResponses :
           LET a == Begin(app, "process_with_llm") IN
           app' =
             IF ~app._gemini_client
             THEN Returns(a, k, "process_with_llm",
                          Append(chat, Assistant(AppWarning \o
                            " Google Gemini API not configured. Set GOOGLE_API_KEY or GEMINI_API_KEY in .env file.")))
             ELSE IF ~app.connected
             THEN Returns(a, k, "process_with_llm",
                          Append(chat, Assistant(AppWarning \o
                            " Not connected to MCP server. Please connect first.")))
             ELSE IF response.kind = "raise"
             THEN Returns(a, k, "process_with_llm", <<LlmError("quota")>>)
             ELSE IF response.kind = "text"
             THEN Returns(a, k, "process_with_llm", <<Assistant("Done.")>>)
             ELSE IF response.kind = "empty"
             THEN Returns(a, k, "process_with_llm",
                          <<Assistant(AppWarning \o " No response from Gemini.")>>)
             ELSE llm_call(a, k, <<>>, response.function_calls)
     \/ \* the tool call has returned: the result is shown and Gemini is
        \* asked to sum it up, then the next function call
        /\ Suspended(k, "process_with_llm", "session.call_tool")
        /\ LET out == app.run[k].out IN
           \/ app' = Returns(app, k, "process_with_llm", Append(out, LlmError("closed")))
           \/ \E reply \in ToolReplies, follow_up \in {"raise", "text", "empty"} :
              LET shown == Append(out, Result(JoinLines(reply, 1)))
                  summed == IF follow_up = "text" THEN Append(shown, Assistant("Done."))
                            ELSE shown
              IN app' =
                   IF follow_up = "raise"
                   THEN Returns(app, k, "process_with_llm", Append(shown, LlmError("quota")))
                   ELSE IF app.run[k].left > 1
                   THEN llm_call(app, k, summed, app.run[k].left - 1)
                   ELSE Returns(app, k, "process_with_llm", summed)
  /\ AppUnchanged

InitApp ==
  /\ InitIdle
  /\ err_in = <<>> /\ err_out = ""
  /\ \E gemini \in BOOLEAN : app = NewApp(gemini)
  /\ build = [pc |-> "none"]

NextApp ==
  \/ \E k \in AppTasks : app_connect(k)
  \/ \E k \in AppTasks : app_disconnect(k)
  \/ \E k \in AppTasks : app_call_tool(k)
  \/ \E k \in AppTasks : app_process_with_llm(k)

SpecApp == InitApp /\ [][NextApp]_vars

(***************************************************************************)
(* Properties of format_error.                                             *)
(***************************************************************************)
\* The keywords in the order of their priority, and the prefix of each.
KeywordPriority == <<"not found", "syntax", "license", "permission">>

KeywordPrefix ==
  [k \in {"not found", "syntax", "license", "permission", ""} |->
     CASE k = "not found" -> "Not found: "
       [] k = "syntax" -> "FlexScript syntax error: "
       [] k = "license" -> "License error: "
       [] k = "permission" -> "Permission denied: "
       [] OTHER -> "Error: "]

\* The keywords some word of the message spells, in whatever case.
KeywordsIn(words) == { words[i].key : i \in 1..Len(words) } \ {""}

\* The keyword of the highest priority among them, "" when there is none.
TopKeyword(words) ==
  IF KeywordsIn(words) = {} THEN ""
  ELSE KeywordPriority[CHOOSE i \in 1..4 :
         /\ KeywordPriority[i] \in KeywordsIn(words)
         /\ \A j \in 1..(i - 1) : KeywordPriority[j] \notin KeywordsIn(words)]

\* C21: format_error answers the prefix of the highest-priority keyword the
\* message contains in any case ("not found", then "syntax", "license",
\* "permission"), "Error: " when it contains none, followed by the message
\* unchanged.
C21_CategoryByPriority ==
  err_out # "" =>
    err_out = KeywordPrefix[TopKeyword(err_in)] \o ErrorMessage(err_in)

\* A message with two keywords in upper and mixed case, the lower-priority
\* one first, was given the category of the higher-priority one.
C21_SeveralKeywords ==
  /\ ErrorMessage(err_in) = "LICENSE; Syntax"
  /\ err_out = "FlexScript syntax error: LICENSE; Syntax"

(***************************************************************************)
(* Properties of the real-time loop.                                       *)
(***************************************************************************)
\* The request rid is a run to a time whose loop is asleep between rounds.
InPollLoop(rid) ==
  \E t \in Tasks :
     /\ tasks[t].rid = rid /\ tasks[t].tool = "flexsim_run_to_time"
     /\ tasks[t].pc = "sleep"

\* The rounds SpecPoll follows are spent for request rid while the loop had
\* not come to a standstill: the engine is running, or the clock is at the
\* target and the next round of the loop would end it.
AtHorizon(rid) ==
  \E t \in Tasks :
     /\ tasks[t].rid = rid /\ tasks[t].pc = "sleep" /\ ~RoundsLeft(t)
     /\ engine.running \/ EngineTime(engine) >= tasks[t].params.target_time

\* C22: a run to a time in real-time mode whose loop has been entered is
\* answered in the end, whether the clock reaches the target or the engine
\* is stopped before it (or it is still polling a running engine after the
\* rounds that are followed).
C22_PollLoopReturns ==
  \A rid \in 1..MaxPollRequests :
     InPollLoop(rid) ~> ((\E i \in Answers : history[i].rid = rid) \/ AtHorizon(rid))

\* The loop of a run to 45 is asleep, the engine was stopped by a later
\* request that has been answered, the clock is below the target and no
\* request is left to come: every further round reads the same time.
C22_PollingAStoppedEngine ==
  /\ InPollLoop(1)
  /\ ~engine.running /\ engine.time < 45
  /\ received = MaxPollRequests
  /\ \E i \in Answers : history[i].rid = 2 /\ history[i].tool = "flexsim_stop"

(***************************************************************************)
(* Properties of concurrent commands.                                      *)
(***************************************************************************)
\* Task t is suspended in the middle of its tool: its open is in the
\* executor or has returned there, or its real-time loop sleeps.
SuspendedInTool(t) ==
  \/ tasks[t].tool = "flexsim_open_model" /\ tasks[t].pc \in {"opening", "opened"}
  \/ tasks[t].tool = "flexsim_run_to_time" /\ tasks[t].pc = "sleep"

\* Task u gets the handle of the session at once and stands before its
\* first engine call.
GetsHandle(u) ==
  /\ get_controller(u)
  /\ tasks'[u].pc = "body" /\ tasks'[u].ctl = controller /\ cur' = u

\* C23: while a task is suspended in the middle of its tool the session
\* exists and its lock is not held, and a second request that has arrived
\* can run, no other task being on the event loop: it gets the same handle
\* and stands before its own engine call (at once, unless callers of the
\* time of the launch are still queued at the lock).
C23_NoExclusionOnCommands ==
  \A t \in Tasks : \A u \in Tasks \ {t} :
     (/\ SuspendedInTool(t) /\ tasks[u].pc = "call"
      /\ cur \notin Tasks \ {t})
     => /\ controller # 0 /\ ~locked
        /\ ENABLED get_controller(u)
        /\ waiters = <<>> => ENABLED GetsHandle(u)

\* A stop of one request was issued between the open of another request
\* and the read of the time that ends that open.
C23_StopInsideOpen ==
  \E i, j, k \in 1..Len(calls) :
     /\ i < j /\ j < k
     /\ calls[i].op = "open" /\ calls[k].op = "time"
     /\ calls[i].rid = calls[k].rid
     /\ calls[j].op = "stop" /\ calls[j].rid # calls[i].rid

(***************************************************************************)
(* Properties of the launches under concurrent callers.                    *)
(***************************************************************************)
\* The tasks whose launch is in flight: started and not yet taken up again
\* by get_controller.
InLaunch == {t \in Tasks : tasks[t].pc \in {"launching", "launched"}}

\* C24: at most one launch is in flight, and the lock is held exactly while
\* one is; a caller that arrives during a launch waits; a launch starts
\* only when none is in flight and there is no controller; and a waiting
\* caller that gets the lock launches itself when there is still no
\* controller (the launch before failed) and otherwise takes the controller
\* without launching.
C24_LaunchesOneAtATime ==
  [][ /\ Cardinality(InLaunch) <= 1
      /\ locked <=> InLaunch # {}
      /\ \A t \in Tasks :
           /\ (tasks[t].pc = "call" /\ InLaunch # {} /\ tasks'[t] # tasks[t]) =>
                 tasks'[t].pc = "waiting" /\ launches' = launches
           /\ (tasks[t].pc # "launching" /\ tasks'[t].pc = "launching") =>
                 /\ InLaunch = {} /\ controller = 0
                 /\ launches' = launches + 1
           /\ (tasks[t].pc = "waiting" /\ tasks'[t].pc # "waiting") =>
                 /\ InLaunch = {}
                 /\ IF controller = 0
                    THEN tasks'[t].pc = "launching"
                    ELSE /\ tasks'[t].pc = "body" /\ tasks'[t].ctl = controller
                         /\ launches' = launches
    ]_vars

\* A caller waited for the lock during a launch that failed, then made its
\* own launch, which succeeded: two launches, one after the other.
C24_WaiterLaunchedAfterFailure ==
  \E i, j \in Answers :
     /\ history[i].launch = "failed"
     /\ history[j].behind = history[i].rid
     /\ history[j].launch = "ok" /\ history[j].ctl = controller
     /\ launches = 2

(***************************************************************************)
(* Properties of a failing engine command.                                 *)
(***************************************************************************)
\* The call c as it was issued, without the stamp of the log.
Command(c) == [f \in DOMAIN c \ {"at", "ok"} |-> c[f]]

\* The index in the log of calls of the call that raised for request rid.
RaisedAt(rid) == CHOOSE k \in 1..Len(calls) : calls[k].rid = rid /\ ~calls[k].ok

\* The texts a failed engine call is answered with.
EngineErrorTexts ==
  {format_error(m) : m \in EngineErrors}
  \cup {"Script error: " \o format_error(m) : m \in EngineErrors}

\* C25: a request issues nothing after an engine call of its own has
\* raised and is answered once, with the error's text; the calls that
\* returned before the failure keep their effect (the engine is where the
\* failing call found it until another call is made); for flexsim_step
\* failing at its k-th step, k-1 steps were applied and none of the steps
\* after k was issued; and no request issues the same command twice, the
\* reads of the clock and the steps of flexsim_step apart.
C25_FailureEndsTheRequest ==
  /\ \A i, j \in Answers : history[i].rid = history[j].rid => i = j
  /\ \A i \in Answers :
       LET cs == EngineCalls(history[i].rid)
           n == StepsAsked(i)
       IN /\ \A k \in 1..Len(cs) : ~cs[k].ok =>
               /\ k = Len(cs)
               /\ history[i].kind = "text" /\ history[i].text \in EngineErrorTexts
               /\ RaisedAt(history[i].rid) = Len(calls) =>
                    EngineTime(engine) = cs[k].at
               /\ (history[i].tool = "flexsim_step" /\ k >= 2 /\ k <= n + 1) =>
                    /\ \A q \in 2..(k - 1) : IsStep(cs[q]) /\ cs[q].ok
                    /\ IsStep(cs[k])
                    /\ cs[k].at = cs[1].at + (k - 2) * EventGap
          /\ Len(SelectSeq(cs, IsStep)) <= IF history[i].tool = "flexsim_step" THEN n ELSE 0
          /\ \A k, q \in 1..Len(cs) :
               (k < q /\ cs[k].op # "time" /\ ~IsStep(cs[k])) =>
                  Command(cs[k]) # Command(cs[q])

\* A request for two steps whose second step raised: the first step was
\* applied and stays applied, nothing followed the failure, and the answer
\* is the error's text.
C25_SecondStepRaised ==
  \E i \in Answers :
     LET cs == EngineCalls(history[i].rid)
     IN /\ history[i].tool = "flexsim_step" /\ history[i].args.steps = 2
        /\ Len(cs) = 3 /\ IsStep(cs[2]) /\ cs[2].ok /\ IsStep(cs[3]) /\ ~cs[3].ok
        /\ RaisedAt(history[i].rid) = Len(calls)
        /\ EngineTime(engine) = cs[1].at + EventGap
        /\ history[i].text = "Not found: Node not found"

(***************************************************************************)
(* Properties of the tools that do not suspend.                            *)
(***************************************************************************)
\* The tool and the arguments of the request rid, in flight or answered.
RequestOf(rid) ==
  IF \E t \in Tasks : tasks[t].rid = rid
  THEN LET t == CHOOSE u \in Tasks : tasks[u].rid = rid
       IN [tool |-> tasks[t].tool, args |-> tasks[t].args]
  ELSE LET i == CHOOSE j \in Answers : history[j].rid = rid
       IN [tool |-> history[i].tool, args |-> history[i].args]

\* The tools that await in the middle of their engine calls: open_model,
\* and run_to_time in real-time mode.
Suspends(r) ==
  \/ r.tool = "flexsim_open_model"
  \/ r.tool = "flexsim_run_to_time" /\ ~RunToTimeInput(r.args).params.fast_mode

\* Task t has the handle, in a tool that does not suspend.
HoldsHandle(t) ==
  /\ tasks[t].pc \notin {"idle", "call", "waiting", "launching", "launched"}
  /\ ~Suspends([tool |-> tasks[t].tool, args |-> tasks[t].args])

\* A call of a tool that does not suspend keeps the event loop from the
\* handle to its text: each of its steps is an engine call of its own
\* request, after which it is still on the event loop or has returned, and
\* meanwhile no other task moves but one whose open runs in the executor's
\* thread.
NoSuspension ==
  \A t \in Tasks :
     HoldsHandle(t) =>
        /\ cur = t
        /\ IF tasks'[t] # tasks[t]
           THEN /\ \/ tasks'[t].pc = "idle"
                   \/ HoldsHandle(t)' /\ cur' = t /\ tasks'[t].rid = tasks[t].rid
                /\ Len(calls') <= Len(calls) + 1
                /\ \A k \in (Len(calls) + 1)..Len(calls') :
                      calls'[k].rid = tasks[t].rid
           ELSE cur' = t
        /\ \A u \in Tasks \ {t} :
              tasks'[u] # tasks[u] =>
                 /\ tasks[u].pc = "opening" /\ tasks'[u].pc = "opened"
                 /\ Len(calls') = Len(calls) + 1
                 /\ calls'[Len(calls')].op = "open"

\* The engine calls of each request of a tool that does not suspend lie
\* one after the other in the log of calls: no call lies between them.
CallsContiguous ==
  \A i, k \in 1..Len(calls) :
     (/\ i < k /\ calls[i].rid = calls[k].rid
      /\ calls[i].op # "launch"
      /\ ~Suspends(RequestOf(calls[i].rid))) =>
        \A j \in i..k : calls[j].rid = calls[i].rid

\* Between the engine calls of a request of a tool that does not suspend
\* lies no call of another request but the open of a flexsim_open_model.
CallsInOneBlock ==
  \A i, k \in 1..Len(calls) :
     (/\ i < k /\ calls[i].rid = calls[k].rid
      /\ calls[i].op # "launch"
      /\ ~Suspends(RequestOf(calls[i].rid))) =>
        \A j \in i..k :
           \/ calls[j].rid = calls[i].rid
           \/ /\ calls[j].op = "open"
              /\ RequestOf(calls[j].rid).tool = "flexsim_open_model"

\* C26 as claimed: a call of a tool other than flexsim_open_model and the
\* real-time flexsim_run_to_time keeps the event loop from the handle to
\* its text, and its engine calls are contiguous on the engine.
C26_CallsContiguousOnEngine ==
  [][NoSuspension /\ CallsContiguous']_vars

\* C26: a call of a tool other than flexsim_open_model and the real-time
\* flexsim_run_to_time keeps the event loop from the handle to its text, so
\* that the engine calls of two such requests never interleave, nor do
\* those of a real-time run fall between them; the one call that can fall
\* between two of its engine calls is the open of a flexsim_open_model,
\* made from the executor's thread.
C26_NoInterleaving ==
  [][NoSuspension /\ CallsInOneBlock']_vars

\* An open_model request launched the engine and its open, running in the
\* executor's thread, fell between the setvalue and the getvalue of a
\* set_node_value request that came while it was under way; both requests
\* were answered.
C26_OpenBetweenSetAndGet ==
  \E i, j \in Answers :
     /\ history[i].tool = "flexsim_set_node_value"
     /\ history[j].tool = "flexsim_open_model" /\ history[j].launch = "ok"
     /\ \E k \in 1..(Len(calls) - 2) :
           /\ calls[k].rid = history[i].rid /\ calls[k].op = "evaluate"
           /\ calls[k + 1].rid = history[j].rid /\ calls[k + 1].op = "open"
           /\ calls[k + 2].rid = history[i].rid /\ calls[k + 2].op = "evaluate"
     /\ history[i].text = CheckMark \o " Model/Queue1 = 0"

(***************************************************************************)
(* Properties of the export.                                               *)
(***************************************************************************)
ExportAnswers == {i \in Answers : history[i].tool = "flexsim_export_results"}

\* The export command the format of the request stands for: csv when none
\* is given.
ExportCommand(args) ==
  IF ~Has(args, "format") THEN "exporttable"
  ELSE (CHOOSE f \in ExportFormats : f.text = args.format).command

\* C27: an export request is rejected only for a missing export_path, never
\* for its format; one that got the handle made one engine call, the
\* evaluate of exporttable for csv, exportexcel for xlsx, in any case of
\* letters, and exportjson for any other format, on the path given.
C27_ExportFormatDispatch ==
  \A i \in ExportAnswers :
     LET a == history[i].args
         cs == EngineCalls(history[i].rid)
     IN /\ history[i].kind = "rejected" <=> ~Has(a, "export_path")
        /\ history[i].kind = "rejected" => cs = <<>>
        /\ history[i].ctl # 0 =>
             /\ Len(cs) = 1 /\ cs[1].op = "evaluate"
             /\ cs[1].script = ExportCommand(a) \o "(\"" \o a.export_path \o "\")"
        /\ Succeeded(i) =>
             history[i].text = CheckMark \o " Results exported to " \o a.export_path

\* A request with the format XLSX issued exportexcel and one with the
\* format xml issued exportjson.
C27_UpperCaseAndUnknownFormat ==
  \E i, j \in ExportAnswers :
     /\ Has(history[i].args, "format") /\ Has(history[j].args, "format")
     /\ history[i].args.format = "XLSX" /\ Succeeded(i)
     /\ EngineCalls(history[i].rid)[1].script = "exportexcel(\"C:/Results/output.csv\")"
     /\ history[j].args.format = "xml" /\ Succeeded(j)
     /\ EngineCalls(history[j].rid)[1].script = "exportjson(\"C:/Results/output.csv\")"

(***************************************************************************)
(* Properties of the search for the configuration file and of the          *)
(* overrides.                                                              *)
(***************************************************************************)
\* The three overrides: the variable, and the key it replaces.
Overrides ==
  { [variable |-> "FLEXSIM_INSTALL_PATH", section |-> "flexsim", key |-> "install_path"],
    [variable |-> "FLEXSIM_PYTHON_VERSION", section |-> "python", key |-> "version"],
    [variable |-> "FLEXSIM_LOG_LEVEL", section |-> "logging", key |-> "level"] }

\* The configuration config is base with the value of every override
\* whose variable is set in place of the key's own, and nothing else changed.
OverridesWin(config, base) ==
  /\ \A o \in Overrides :
        IF Truthy(cfg_in.environ[o.variable])
        THEN /\ o.section \in DOMAIN config /\ o.key \in DOMAIN config[o.section]
             /\ config[o.section][o.key] = cfg_in.environ[o.variable]
        ELSE /\ o.section \in DOMAIN config <=> o.section \in DOMAIN base
             /\ o.section \in DOMAIN base => config[o.section] = base[o.section]
  /\ \A sec \in DOMAIN base \ {o.section : o \in Overrides} :
        sec \in DOMAIN config /\ config[sec] = base[sec]

\* C29: a path argument that names no file ends the search with no file
\* and the defaults, whatever FLEXSIM_CONFIG_PATH, the working directory and
\* the project root hold; with no argument, a FLEXSIM_CONFIG_PATH that
\* names no file leaves the search to the working directory's config.toml
\* and then the project root's; and whatever file or defaults were loaded,
\* each of the three override variables that is set has its value in the
\* configuration.
C29_SearchAndOverrides ==
  cfg_out.loaded =>
     LET arg == cfg_in.config_path
         env_path == cfg_in.environ.FLEXSIM_CONFIG_PATH
         found == cfg_out.config_path
         base == IF found # None /\ cfg_in.disk[found] = "toml"
                 THEN TomlLoad(found) ELSE _set_defaults
     IN /\ (Truthy(arg) /\ ~PathExists(arg)) =>
              found = None /\ OverridesWin(cfg_out.config, _set_defaults)
        /\ (~Truthy(arg) /\ Truthy(env_path) /\ ~PathExists(env_path)) =>
              found = (IF PathExists(cwd_config) THEN cwd_config
                       ELSE IF PathExists(project_root) THEN project_root
                       ELSE None)
        /\ OverridesWin(cfg_out.config, base)

\* FLEXSIM_CONFIG_PATH named a missing file, the working directory's
\* config.toml was loaded in its place, and the install path of
\* FLEXSIM_INSTALL_PATH replaced the one of that file.
C29_EnvPathMissingOverrideWins ==
  /\ cfg_out.loaded
  /\ cfg_in.config_path = None
  /\ cfg_in.environ.FLEXSIM_CONFIG_PATH = EnvToml /\ ~PathExists(EnvToml)
  /\ cfg_in.disk[cwd_config] = "toml"
  /\ cfg_out.config_path = cwd_config
  /\ TomlLoad(cwd_config).flexsim.install_path = DefaultInstallPath
  /\ cfg_in.environ.FLEXSIM_INSTALL_PATH = "E:/FlexSim/program"
  /\ cfg_out.config.flexsim.install_path = "E:/FlexSim/program"
  /\ cfg_in.environ.FLEXSIM_LOG_LEVEL = "DEBUG"
  /\ cfg_out.config.logging.level = "DEBUG"

(***************************************************************************)
(* Properties of the build automation command line.                        *)
(***************************************************************************)
\* The run copied headers, ran MSBuild or copied into site-packages.
BuildOrInstallDone == build.synced + build.msbuild_runs + build.copies > 0

\* C30: a run of the command line with --status and neither --build nor
\* --install prints the build status and copies no headers, runs no
\* MSBuild and copies nothing into site-packages; any run that did one of
\* these had --build or --install on its command line.
C30_StatusOnlyShowsStatus ==
  build.pc = "exited" =>
     /\ build.argv = {"--status"} =>
           /\ build.out = <<"=== FlexSimPy Build Status ===">>
           /\ ~BuildOrInstallDone
     /\ BuildOrInstallDone => build.argv \cap {"--build", "--install"} # {}

\* With only --status on the command line and no FlexSimPy on the machine,
\* the run compiled FlexSimPy, copied it into site-packages, printed that,
\* and then printed the status.
C30_StatusRunBuiltAndInstalled ==
  /\ build.pc = "exited" /\ build.argv = {"--status"}
  /\ build.msbuild_runs = 1 /\ build.copies = 1
  /\ build.out = <<"FlexSimPy installed to site-packages", "=== FlexSimPy Build Status ===">>
  /\ build.exit_code = 0

(***************************************************************************)
(* Properties of the Gradio client.                                        *)
(***************************************************************************)
\* The client is as disconnect leaves it.
Disconnected(a) == a.session = 0 /\ ~a.connected /\ a.tools = <<>>

\* The step calls the operation op, and the step is one op returns with.
Invoked(op) == app'.ops = app.ops + 1 /\ app'.op = op

Returned(op) == app'.done = app.done + 1 /\ app'.last = op

\* What holds of every step of the client whether or not operations
\* overlap: a call_tool called on a client that is not connected returns
\* "Error: Not connected to MCP server" at once and sends the server no
\* request; a connect that failed returns with connected False; a disconnect
\* returns with no session, connected False and no tools, and called on a
\* client it has already left so returns at once, changes none of these and
\* closes no session.
OperationsKeep ==
  /\ (Invoked("call_tool") /\ ~app.connected) =>
        /\ Returned("call_tool")
        /\ app'.result = "Error: Not connected to MCP server"
        /\ app'.requests = app.requests
  /\ (Returned("connect") /\ StartsWith(app'.result, AppCross)) => ~app'.connected
  /\ Returned("disconnect") => Disconnected(app') /\ app'.result = "Disconnected"
  /\ (Invoked("disconnect") /\ Disconnected(app)) =>
        /\ Returned("disconnect") /\ Disconnected(app')
        /\ app'.exits = app.exits

\* The statement of C28 for whatever operations the handlers of the page
\* have run: a connected client has a session, and the operations keep
\* what they promise.
C28_ConnectedHasSession ==
  [][ app' # app =>
        /\ app'.connected => app'.session # 0
        /\ OperationsKeep ]_vars

\* C28: as long as the operations have run one after the other, none called
\* while another was waiting, a connected client has a session; and in any
\* case a call_tool on a client that is not connected returns "Error: Not
\* connected to MCP server" and sends the server no request, a connect that
\* failed leaves connected False, and a disconnect leaves no session,
\* connected False and no tools, and run on a client it has already left so
\* changes none of these and closes no session.
C28_ClientInvariants ==
  [][ app' # app =>
        /\ ~app'.overlap => (app'.connected => app'.session # 0)
        /\ OperationsKeep ]_vars

\* With no operation overlapping another, a connect listed the tools, a
\* second connect failed after it had made its session, and a call_tool was
\* then refused without a request to the server although the client holds a
\* session and a list of tools.
C28_RefusedAfterFailedReconnect ==
  /\ app.pc = "ready" /\ ~app.overlap /\ InFlight(app) = {}
  /\ app.last = "call_tool"
  /\ app.result = "Error: Not connected to MCP server"
  /\ ~app.connected /\ app.session = 2 /\ app.tools # <<>>
  /\ app.requests = 0 /\ app.exits = 0

====
